---- MODULE Spec2Model ----
(***************************************************************************)
(* Tool-invocation subsystem of my-agent-toolkit: the safety validator     *)
(* (core/tools/safety.py), the tool registry and executor                  *)
(* (core/tools/registry.py, executor.py, base.py, models.py) and the       *)
(* tool-calling loop of BaseAgent (core/agent.py).                         *)
(*                                                                         *)
(* Python values are tagged records [t |-> kind, v |-> payload]; a dict is *)
(* the sequence of its entries in insertion order, which is the order      *)
(* Python iterates it in.                                                  *)
(***************************************************************************)
EXTENDS Integers, Sequences, FiniteSets, TLC

(***************************************************************************)
(* Python values                                                           *)
(***************************************************************************)
StrV(s) == [t |-> "str", v |-> s]
IntV(i) == [t |-> "int", v |-> i]
BoolV(b) == [t |-> "bool", v |-> b]
FloatV(x) == [t |-> "float", v |-> x]
NoneV == [t |-> "none", v |-> "None"]
ListV(items) == [t |-> "list", v |-> items]
DictV(entries) == [t |-> "dict", v |-> entries]
Entry(key, value) == [k |-> key, val |-> value]

\* dict.get(key): the value stored under key, None when the key is absent
RECURSIVE DictGet(_, _)
DictGet(entries, key) ==
    IF entries = <<>> THEN NoneV
    ELSE IF Head(entries).k = key THEN Head(entries).val
    ELSE DictGet(Tail(entries), key)

\* key in dict
HasKey(entries, key) == \E i \in 1..Len(entries) : entries[i].k = key

\* dict[key] = value: replaces in place, or appends a new entry at the end
DictSet(entries, key, value) ==
    IF HasKey(entries, key)
    THEN [i \in 1..Len(entries) |->
            IF entries[i].k = key THEN Entry(key, value) ELSE entries[i]]
    ELSE Append(entries, Entry(key, value))

\* set(dict.keys())
DictKeys(entries) == {entries[i].k : i \in 1..Len(entries)}

\* the one element of a singleton set
Only(S) == CHOOSE x \in S : TRUE

(***************************************************************************)
(* Safety validator (core/tools/safety.py)                                 *)
(***************************************************************************)
Rule(n, sev, msg, cat) == [name |-> n, severity |-> sev, message |-> msg, category |-> cat]

DANGEROUS_FS_PATTERNS ==
    << Rule("rm_rf", "error", "Recursive force removal detected (rm -rf)", "filesystem"),
       Rule("rm_root", "error", "Removal of root directory or critical paths", "filesystem"),
       Rule("mkfs", "error", "Filesystem creation/formatting detected (mkfs)", "filesystem"),
       Rule("dd_dangerous", "error", "Direct disk write detected (dd to block device)", "filesystem"),
       Rule("format_disk", "error", "Disk partitioning/formatting tool detected", "filesystem") >>

DANGEROUS_SYSTEM_PATTERNS ==
    << Rule("shutdown", "error", "System shutdown/reboot command detected", "system"),
       Rule("kill_all", "warning", "Force kill all processes (killall -9)", "system"),
       Rule("fork_bomb", "error", "Fork bomb pattern detected", "system"),
       Rule("chmod_777", "warning", "Overly permissive permissions (chmod 777)", "system"),
       Rule("disable_firewall", "warning", "Firewall modification detected", "system") >>

DANGEROUS_NETWORK_PATTERNS ==
    << Rule("curl_pipe_sh", "error", "Piping remote content to shell (curl | sh)", "network"),
       Rule("wget_pipe_sh", "error", "Piping remote content to shell (wget | sh)", "network") >>

DANGEROUS_EXEC_PATTERNS ==
    << Rule("eval", "warning", "Use of eval() for code execution", "execution"),
       Rule("exec", "warning", "Use of exec() for code execution", "execution") >>

DANGEROUS_PATHS == << "/", "/etc", "/bin", "/sbin", "/usr", "/var", "/boot", "/sys", "/proc" >>

\* SafetyValidator.__init__: self.rules, the four tables concatenated
rules ==
    DANGEROUS_FS_PATTERNS \o DANGEROUS_SYSTEM_PATTERNS
        \o DANGEROUS_NETWORK_PATTERNS \o DANGEROUS_EXEC_PATTERNS

\* The strings the model feeds to the validator.
Texts ==
    { "echo hi", "utf-8", "rm -rf /tmp/x", "chmod 777 foo",
      "killall -9 x; chmod 777 y", "mkfs; chmod 777 x", "rm -rf /tmp/x; mkfs",
      "/", "//", "/etc", "/etc/", "/usr//", "/etc/passwd", "/home/u" }

\* self._compiled_patterns[rule.name].search(command) is not None, for the
\* strings of Texts: the outcome of Python's re.search with re.IGNORECASE on
\* the pattern of each rule (the rules absent from the table match none).
PatternSearch(rule_name, command) ==
    CASE rule_name = "rm_rf" -> command \in {"rm -rf /tmp/x", "rm -rf /tmp/x; mkfs"}
      [] rule_name = "mkfs" -> command \in {"mkfs; chmod 777 x", "rm -rf /tmp/x; mkfs"}
      [] rule_name = "kill_all" -> command \in {"killall -9 x; chmod 777 y"}
      [] rule_name = "chmod_777" ->
            command \in {"chmod 777 foo", "killall -9 x; chmod 777 y", "mkfs; chmod 777 x"}
      [] OTHER -> FALSE

\* str.upper() on the two severities
Upper(s) ==
    CASE s = "error" -> "ERROR"
      [] s = "warning" -> "WARNING"
      [] OTHER -> s

\* The loop body of validate_command for the rules from index i on.
RECURSIVE ValidateCommandFrom(_, _, _, _, _)
ValidateCommandFrom(i, command, allow_warnings, violations, has_errors) ==
    IF i > Len(rules) THEN [is_safe |-> ~has_errors, violations |-> violations]
    ELSE IF PatternSearch(rules[i].name, command)
    THEN ValidateCommandFrom(i + 1, command, allow_warnings,
            Append(violations, "[" \o Upper(rules[i].severity) \o "] " \o rules[i].message),
            has_errors \/ rules[i].severity = "error"
                       \/ (rules[i].severity = "warning" /\ ~allow_warnings))
    ELSE ValidateCommandFrom(i + 1, command, allow_warnings, violations, has_errors)

\* validate_command that ignores allow_warnings: every warning blocks
validate_command_Strict(command, allow_warnings) ==
    ValidateCommandFrom(1, command, FALSE, <<>>, FALSE)

validate_command(command, allow_warnings) ==
    ValidateCommandFrom(1, command, allow_warnings, <<>>, FALSE)

\* str.rstrip("/")
RECURSIVE RStripSlash(_)
RStripSlash(s) ==
    IF Len(s) > 0 /\ SubSeq(s, Len(s), Len(s)) = "/"
    THEN RStripSlash(SubSeq(s, 1, Len(s) - 1))
    ELSE s

\* str.startswith(prefix)
StartsWith(s, prefix) ==
    Len(s) >= Len(prefix) /\ SubSeq(s, 1, Len(prefix)) = prefix

\* The loop of validate_path over DANGEROUS_PATHS from index i on.
RECURSIVE ValidatePathFrom(_, _, _)
ValidatePathFrom(i, path, normalized) ==
    IF i > Len(DANGEROUS_PATHS) THEN [is_safe |-> TRUE, message |-> "None"]
    ELSE IF normalized = DANGEROUS_PATHS[i]
    THEN [is_safe |-> FALSE,
          message |-> "Access to critical system path denied: " \o path]
    ELSE IF StartsWith(normalized, DANGEROUS_PATHS[i] \o "/")
    THEN [is_safe |-> TRUE,
          message |-> "Modification of system path may be dangerous: " \o path]
    ELSE ValidatePathFrom(i + 1, path, normalized)

validate_path(path) == ValidatePathFrom(1, path, RStripSlash(path))

\* sub in s
Contains(s, sub) ==
    \E i \in 1..(Len(s) - Len(sub) + 1) : SubSeq(s, i, i + Len(sub) - 1) = sub

\* str.lower() on the upper-case letters the parameter names of the model use
LowerChar(c) ==
    CASE c = "D" -> "d"
      [] c = "I" -> "i"
      [] c = "R" -> "r"
      [] OTHER -> c

RECURSIVE Lower(_)
Lower(s) ==
    IF Len(s) = 0 THEN s
    ELSE LowerChar(SubSeq(s, 1, 1)) \o Lower(SubSeq(s, 2, Len(s)))

\* any(path_key in key.lower() for path_key in ["path", "file", "dir", "directory"])
IsPathKey(key) ==
    \E path_key \in {"path", "file", "dir", "directory"} : Contains(Lower(key), path_key)

\* [f"Parameter '{key}': {v}" for v in cmd_violations]
PrefixAll(key, vs) == [i \in 1..Len(vs) |-> "Parameter '" \o key \o "': " \o vs[i]]

\* str(i) for the list indexes of the model
IndexStr(i) ==
    CASE i = 0 -> "0"
      [] i = 1 -> "1"
      [] i = 2 -> "2"
      [] OTHER -> "3"

\* The violations validate_parameters collects for the entries of params, in
\* iteration order; ItemViolations is the inner loop over a list value.
RECURSIVE ParamViolations(_, _)
RECURSIVE ItemViolations(_, _, _, _)
ParamViolations(params, allow_warnings) ==
    IF params = <<>> THEN <<>>
    ELSE
      LET key == Head(params).k
          value == Head(params).val
          cmd == validate_command(value.v, allow_warnings)
          pth == validate_path(value.v)
          here ==
            CASE value.t = "str" ->
                    (IF ~cmd.is_safe \/ cmd.violations # <<>>
                     THEN PrefixAll(key, cmd.violations) ELSE <<>>)
                    \o (IF IsPathKey(key) /\ pth.message # "None" /\ ~pth.is_safe
                        THEN << "Parameter '" \o key \o "': " \o pth.message >>
                        ELSE <<>>)
              [] value.t = "dict" -> ParamViolations(value.v, allow_warnings)
              [] value.t = "list" -> ItemViolations(key, value.v, 1, allow_warnings)
              [] OTHER -> <<>>
      IN here \o ParamViolations(Tail(params), allow_warnings)

ItemViolations(key, items, i, allow_warnings) ==
    IF i > Len(items) THEN <<>>
    ELSE
      LET item == items[i]
          item_dict ==
            IF item.t = "str"
            THEN << Entry(key \o "[" \o IndexStr(i - 1) \o "]", item) >>
            ELSE item.v
          here ==
            IF item.t \in {"str", "dict"}
            THEN ParamViolations(item_dict, allow_warnings)
            ELSE <<>>
      IN here \o ItemViolations(key, items, i + 1, allow_warnings)

\* validate_parameters whose verdict is unsafe only on an [ERROR] finding
validate_parameters_ErrorsOnly(params, allow_warnings) ==
    LET violations == ParamViolations(params, allow_warnings)
    IN [is_safe |-> ~\E i \in 1..Len(violations) : Contains(violations[i], "[ERROR]"),
        violations |-> violations]

validate_parameters(params, allow_warnings) ==
    LET violations == ParamViolations(params, allow_warnings)
    IN [is_safe |-> Len(violations) = 0, violations |-> violations]

(***************************************************************************)
(* Parameter model (core/tools/models.py)                                  *)
(***************************************************************************)
\* ToolParameter(name, param_type, description, required, default, enum,
\* items, properties); the description plays no part in validation. enum is
\* a sequence of values (<<>> for None), items the declared item type ("None"
\* when items is not given), properties a sequence of nested descriptors.
ToolParameter(n, ty, req, dflt, en, its, props) ==
    [name |-> n, param_type |-> ty, required |-> req, default |-> dflt,
     enum |-> en, items |-> its, properties |-> props]

\* isinstance(value, cls) for the builtin classes: bool is a subclass of int
IsInstance(value, cls) ==
    IF cls = "int" THEN value.t \in {"int", "bool"} ELSE value.t = cls

\* ToolParameter._check_type(value, type_str)
_check_type(value, type_str) ==
    CASE type_str = "string" -> IsInstance(value, "str")
      [] type_str = "integer" -> IsInstance(value, "int") /\ ~IsInstance(value, "bool")
      [] type_str = "number" ->
            /\ IsInstance(value, "int") \/ IsInstance(value, "float")
            /\ ~IsInstance(value, "bool")
      [] type_str = "boolean" -> IsInstance(value, "bool")
      [] type_str = "array" -> IsInstance(value, "list")
      [] type_str = "object" -> IsInstance(value, "dict")
      [] OTHER -> TRUE

\* the type_checks table without the exclusion of bool from the numeric kinds
TypeCheck_BoolIsInt(param_type, value) ==
    CASE param_type = "string" -> IsInstance(value, "str")
      [] param_type = "integer" -> IsInstance(value, "int")
      [] param_type = "number" -> IsInstance(value, "int") \/ IsInstance(value, "float")
      [] param_type = "boolean" -> IsInstance(value, "bool")
      [] param_type = "array" -> IsInstance(value, "list")
      [] param_type = "object" -> IsInstance(value, "dict")
      [] OTHER -> TRUE

\* the type_checks table of ToolParameter.validate
TypeCheck(param_type, value) ==
    CASE param_type = "string" -> IsInstance(value, "str")
      [] param_type = "integer" -> IsInstance(value, "int") /\ ~IsInstance(value, "bool")
      [] param_type = "number" ->
            /\ IsInstance(value, "int") \/ IsInstance(value, "float")
            /\ ~IsInstance(value, "bool")
      [] param_type = "boolean" -> IsInstance(value, "bool")
      [] param_type = "array" -> IsInstance(value, "list")
      [] param_type = "object" -> IsInstance(value, "dict")
      [] OTHER -> TRUE

\* value in self.enum
InEnum(value, enum) == \E i \in 1..Len(enum) : enum[i] = value

\* str(self.enum) for an enum of strings
RECURSIVE ReprItems(_)
ReprItems(enum) ==
    IF enum = <<>> THEN ""
    ELSE "'" \o Head(enum).v \o "'"
         \o (IF Len(enum) > 1 THEN ", " ELSE "") \o ReprItems(Tail(enum))

ReprEnum(enum) == "[" \o ReprItems(enum) \o "]"

\* first index i of value whose item fails _check_type, 0 when there is none
FirstBadItem(items, item_type) ==
    IF \E i \in 1..Len(items) : ~_check_type(items[i], item_type)
    THEN CHOOSE i \in 1..Len(items) :
            /\ ~_check_type(items[i], item_type)
            /\ \A j \in 1..(i - 1) : _check_type(items[j], item_type)
    ELSE 0

Valid == [ok |-> TRUE, error |-> "None"]
Invalid(msg) == [ok |-> FALSE, error |-> msg]

\* the None branch accepting every absent value
ValidateAbsent_Accepts(param) == Valid

\* models.py lines 75-78: the verdict of validate on the value None
ValidateAbsent(param) ==
    IF param.required
    THEN Invalid("Parameter '" \o param.name \o "' is required")
    ELSE Valid

\* ToolParameter.validate(value); ValidateProps is its loop over the nested
\* properties of an object parameter.
RECURSIVE validate(_, _)
RECURSIVE ValidateProps(_, _, _)
validate(param, value) ==
    IF value = NoneV
    THEN ValidateAbsent(param)
    ELSE IF ~TypeCheck(param.param_type, value)
    THEN Invalid("Parameter '" \o param.name \o "' must be of type " \o param.param_type)
    ELSE IF param.enum # <<>> /\ ~InEnum(value, param.enum)
    THEN Invalid("Parameter '" \o param.name \o "' must be one of " \o ReprEnum(param.enum))
    ELSE IF /\ param.param_type = "array" /\ param.items # "None" /\ value.t = "list"
            /\ FirstBadItem(value.v, param.items) # 0
    THEN Invalid("Array item " \o IndexStr(FirstBadItem(value.v, param.items) - 1)
                 \o " in '" \o param.name \o "' must be of type " \o param.items)
    ELSE IF param.param_type = "object" /\ param.properties # <<>> /\ value.t = "dict"
    THEN ValidateProps(param, param.properties, value.v)
    ELSE Valid

ValidateProps(param, props, entries) ==
    IF props = <<>> THEN Valid
    ELSE LET r == validate(Head(props), DictGet(entries, Head(props).name))
         IN IF ~r.ok THEN Invalid("In '" \o param.name \o "': " \o r.error)
            ELSE ValidateProps(param, Tail(props), entries)

\* ToolResult(success, output, error=None, execution_time=0.0, metadata={})
ToolResult(succ, out, err, time, meta) ==
    [success |-> succ, output |-> out, error |-> err, execution_time |-> time,
     metadata |-> meta]

(***************************************************************************)
(* Tool capability (core/tools/base.py)                                    *)
(***************************************************************************)
\* The tool classes of the model. ProbeTool takes a command, a path, two
\* permissive structured parameters and a timeout with a default; LegacyTool
\* takes a command only. ProbeV2Tool goes by the name of ProbeTool and has a
\* required parameter with a default; PlainTool requires nothing; the last
\* three definitions are the ones _validate_definition refuses.
ToolClasses ==
    [ ProbeTool |->
        [name |-> "probe", description |-> "Run a probe command",
         parameters |->
           << ToolParameter("command", "string", TRUE, NoneV, <<>>, "None", <<>>),
              ToolParameter("path", "string", FALSE, NoneV, <<>>, "None", <<>>),
              ToolParameter("opts", "object", FALSE, NoneV, <<>>, "None", <<>>),
              ToolParameter("items", "array", FALSE, NoneV, <<>>, "None", <<>>),
              ToolParameter("timeout", "integer", FALSE, IntV(30), <<>>, "None", <<>>) >>],
      LegacyTool |->
        [name |-> "legacy", description |-> "Superseded tool",
         parameters |->
           << ToolParameter("command", "string", TRUE, NoneV, <<>>, "None", <<>>) >>],
      ProbeV2Tool |->
        [name |-> "probe", description |-> "Run a probe command on a target",
         parameters |->
           << ToolParameter("target", "string", TRUE, NoneV, <<>>, "None", <<>>),
              ToolParameter("command", "string", TRUE, StrV("ls"), <<>>, "None", <<>>),
              ToolParameter("count", "integer", FALSE, NoneV, <<>>, "None", <<>>) >>],
      PlainTool |->
        [name |-> "plain", description |-> "Takes optional numbers only",
         parameters |->
           << ToolParameter("level", "number", FALSE, NoneV, <<>>, "None", <<>>),
              ToolParameter("flags", "array", FALSE, NoneV, <<>>, "integer", <<>>),
              ToolParameter("ratios", "array", FALSE, NoneV, <<>>, "number", <<>>),
              ToolParameter("count", "integer", FALSE, IntV(1), <<>>, "None", <<>>) >>],
      NamelessTool |->
        [name |-> "", description |-> "A tool without a name",
         parameters |->
           << ToolParameter("command", "string", TRUE, NoneV, <<>>, "None", <<>>) >>],
      UndescribedTool |->
        [name |-> "mute", description |-> "",
         parameters |->
           << ToolParameter("command", "string", TRUE, NoneV, <<>>, "None", <<>>) >>],
      TwinTool |->
        [name |-> "twin", description |-> "Declares one name twice",
         parameters |->
           << ToolParameter("command", "string", TRUE, NoneV, <<>>, "None", <<>>),
              ToolParameter("command", "integer", FALSE, NoneV, <<>>, "None", <<>>) >>] ]

ParamNames(parameters) == {parameters[i].name : i \in 1..Len(parameters)}

\* BaseTool._validate_definition: "None" when the definition is accepted,
\* else the message of the ValueError it raises
_validate_definition(tool) ==
    IF tool.name = "" THEN "Tool must have a name"
    ELSE IF tool.description = ""
    THEN "Tool '" \o tool.name \o "' must have a description"
    ELSE IF Len(tool.parameters) # Cardinality(ParamNames(tool.parameters))
    THEN "Tool '" \o tool.name \o "' has duplicate parameter names"
    ELSE "None"

\* ', '.join(unknown_params) for a set of at most one name; the inputs of the
\* model never carry more than one unknown parameter
JoinNames(S) == IF S = {} THEN "" ELSE CHOOSE n \in S : TRUE

\* the lookup of a declared parameter without the substitution of its default
ResolveDefault_Skipped(param_def, params) ==
    [params |-> params, value |-> DictGet(params, param_def.name)]

\* base.py lines 86-91: the value validate_parameters checks for a declared
\* parameter and params afterwards; an absent value takes the declared
\* default, which is written back into params
ResolveDefault(param_def, params) ==
    LET value == DictGet(params, param_def.name)
    IN IF value = NoneV /\ param_def.default # NoneV
       THEN [params |-> DictSet(params, param_def.name, param_def.default),
             value |-> param_def.default]
       ELSE [params |-> params, value |-> value]

\* The loop of BaseTool.validate_parameters over the declared parameters.
RECURSIVE ValidateDeclared(_, _)
ValidateDeclared(parameters, params) ==
    IF parameters = <<>> THEN [ok |-> TRUE, error |-> "None", params |-> params]
    ELSE
      LET param_def == Head(parameters)
          resolved == ResolveDefault(param_def, params)
          r == validate(param_def, resolved.value)
      IN IF ~r.ok THEN [ok |-> FALSE, error |-> r.error, params |-> resolved.params]
         ELSE ValidateDeclared(Tail(parameters), resolved.params)

\* validate_parameters without the test for unknown parameter names
tool_validate_parameters_Lenient(tool, params) ==
    ValidateDeclared(tool.parameters, params)

\* BaseTool.validate_parameters(params): the verdict and params as the call
\* leaves it
tool_validate_parameters(tool, params) ==
    LET unknown_params == DictKeys(params) \ ParamNames(tool.parameters)
    IN IF unknown_params # {}
       THEN [ok |-> FALSE, error |-> "Unknown parameters: " \o JoinNames(unknown_params),
             params |-> params]
       ELSE ValidateDeclared(tool.parameters, params)

(***************************************************************************)
(* State                                                                   *)
(***************************************************************************)
VARIABLES
    _tools,           \* ToolRegistry._tools: entries name -> tool class
    _metadata,        \* ToolRegistry._metadata: entries name -> metadata
    instances,        \* the tool objects create handed out in the registry specification
    safety_enabled,   \* ToolExecutor.safety_enabled
    allow_warnings,   \* ToolExecutor.allow_warnings
    safety_validator, \* ToolExecutor.safety_validator is not None
    stats,            \* ToolExecutor.stats
    last,             \* what the caller of the last execute call observed
    scan,             \* the last call of a SafetyValidator method and its result
    enable_tools,     \* BaseAgent.enable_tools
    available_tools,  \* BaseAgent.available_tools
    tool_executor,    \* BaseAgent.tool_executor is not None
    history,          \* BaseAgent.history
    tool_history,     \* BaseAgent.tool_history
    pc,               \* where the chat_with_tools call of the agent stands
    frame,            \* the locals of that chat_with_tools call
    llm_calls,        \* the chat_completion calls the LLM client received
    batch,            \* the last execute_batch call and the list it returned
    threads           \* the concurrent callers of execute: position and locals

regVars == << _tools, _metadata, instances >>
execVars == << safety_enabled, allow_warnings, safety_validator, stats, last >>
agentVars == << enable_tools, available_tools, tool_executor, history, tool_history >>
loopVars == << pc, frame, llm_calls >>
callerVars == << batch, threads >>

vars == << _tools, _metadata, instances, safety_enabled, allow_warnings, safety_validator,
           stats, last, scan, enable_tools, available_tools, tool_executor, history,
           tool_history, pc, frame, llm_calls, batch, threads >>

(***************************************************************************)
(* Bounds and inputs                                                       *)
(***************************************************************************)
\* number of execute calls explored on one executor
MaxExecs == 2
\* largest elapsed wall-clock time of one call, in ticks
MaxElapsed == 1

\* execution_time a tool stamps on the result it builds itself
ToolSetTime == 9

\* the time a tool call takes where the model does not vary it
Elapsed == 1

\* What the tool of one call does: its constructor (ok, or raising ValueError
\* or another Exception), its validate_parameters (ok or raising) and its
\* execute: returning a ToolResult (successful; failed with an error text;
\* failed without one; successful with an output json cannot serialise), a
\* bare value, or raising an Exception.
Behaviour(c, v, e) == [ctor |-> c, validate |-> v, exec |-> e]

ExecBehaviours ==
    {"returns_ok", "returns_failed", "returns_failed_no_error", "returns_object",
     "returns_bare", "raises"}

Behaviours ==
    {Behaviour("ok", "ok", e) : e \in ExecBehaviours}
        \cup {Behaviour("ValueError", "ok", "returns_ok"),
              Behaviour("Exception", "ok", "returns_ok"),
              Behaviour("ok", "raises", "returns_ok")}

\* an object json.dumps cannot serialise
ObjectV == [t |-> "object", v |-> "<object>"]

(***************************************************************************)
(* Tool registry (core/tools/registry.py)                                  *)
(***************************************************************************)
\* ", ".join(names)
RECURSIVE Join(_, _)
Join(sep, strs) ==
    IF strs = <<>> THEN ""
    ELSE IF Len(strs) = 1 THEN Head(strs)
    ELSE Head(strs) \o sep \o Join(sep, Tail(strs))

KeySeq(entries) == [i \in 1..Len(entries) |-> entries[i].k]

\* tool_class(): BaseTool.__init__ runs _validate_definition; ctor is the
\* fault the constructor of this call raises on its own account
Construct(cls, ctor) ==
    IF _validate_definition(ToolClasses[cls]) # "None"
    THEN [exc |-> "ValueError", msg |-> _validate_definition(ToolClasses[cls]), tool |-> cls]
    ELSE IF ctor # "ok"
    THEN [exc |-> ctor, msg |-> "constructor failed", tool |-> cls]
    ELSE [exc |-> "None", msg |-> "None", tool |-> cls]

\* metadata.get("enabled", True) of cls._metadata.get(tool_name, {})
IsEnabled(metadata, tool_name) ==
    ~HasKey(metadata, tool_name) \/ DictGet(metadata, tool_name).enabled

\* create without the test of the enabled flag
create_IgnoresDisabled(tools, metadata, tool_name, ctor) ==
    IF ~HasKey(tools, tool_name)
    THEN [exc |-> "ValueError",
          msg |-> "Tool '" \o tool_name \o "' not found. Available tools: "
                    \o Join(", ", KeySeq(tools)),
          tool |-> "None"]
    ELSE Construct(DictGet(tools, tool_name), ctor)

\* ToolRegistry.create(tool_name): the instance, or the exception raised
create(tools, metadata, tool_name, ctor) ==
    IF ~HasKey(tools, tool_name)
    THEN [exc |-> "ValueError",
          msg |-> "Tool '" \o tool_name \o "' not found. Available tools: "
                    \o Join(", ", KeySeq(tools)),
          tool |-> "None"]
    ELSE IF ~IsEnabled(metadata, tool_name)
    THEN [exc |-> "ValueError", msg |-> "Tool '" \o tool_name \o "' is disabled",
          tool |-> "None"]
    ELSE Construct(DictGet(tools, tool_name), ctor)

(***************************************************************************)
(* Tool executor (core/tools/executor.py)                                  *)
(***************************************************************************)
\* ToolExecutor._get_tool: the tool instance, or a ToolResult with the error
_get_tool(tools, metadata, tool_name, ctor) ==
    LET c == create(tools, metadata, tool_name, ctor)
    IN CASE c.exc = "None" -> [is_result |-> FALSE, tool |-> c.tool]
         [] c.exc = "ValueError" ->
              [is_result |-> TRUE,
               result |-> ToolResult(FALSE, NoneV, StrV("Tool not found: " \o c.msg), 0, <<>>)]
         [] OTHER ->
              [is_result |-> TRUE,
               result |-> ToolResult(FALSE, NoneV,
                                     StrV("Tool creation failed: " \o c.msg), 0, <<>>)]

\* tool.execute(**parameters): what the tool of this call hands back
ToolExecute(exec) ==
    CASE exec = "returns_ok" ->
            [exc |-> "None", is_result |-> TRUE,
             value |-> ToolResult(TRUE, StrV("done"), NoneV, ToolSetTime, <<>>)]
      [] exec = "returns_failed" ->
            [exc |-> "None", is_result |-> TRUE,
             value |-> ToolResult(FALSE, NoneV, StrV("tool failed"), ToolSetTime, <<>>)]
      [] exec = "returns_failed_no_error" ->
            [exc |-> "None", is_result |-> TRUE,
             value |-> ToolResult(FALSE, NoneV, NoneV, ToolSetTime, <<>>)]
      [] exec = "returns_object" ->
            [exc |-> "None", is_result |-> TRUE,
             value |-> ToolResult(TRUE, ObjectV, NoneV, ToolSetTime, <<>>)]
      [] exec = "returns_bare" ->
            [exc |-> "None", is_result |-> FALSE, value |-> StrV("bare")]
      [] OTHER ->
            [exc |-> "boom", is_result |-> FALSE, value |-> NoneV]

Bump(st, counter) == [st EXCEPT ![counter] = @ + 1]

\* What one return path of execute yields: the exception that leaves the
\* enclosing block ("None" when it returns), the ToolResult, the statistics,
\* the parameters dict as the call leaves it, how many times the tool's
\* execute ran and what it did.
Return(result, st, params, n, exec) ==
    [exc |-> "None", result |-> result, stats |-> st, params |-> params,
     invoked |-> n, exec |-> exec]
Raise(msg, st, params, n, exec) ==
    [exc |-> msg, result |-> ToolResult(FALSE, NoneV, NoneV, 0, <<>>), stats |-> st,
     params |-> params, invoked |-> n, exec |-> exec]

\* the inner try without the coercion of a bare value: the missing success
\* attribute is a fault, which the except clause reports
RunTool_NoCoercion(st, parameters, exec, dt) ==
    LET r == ToolExecute(exec)
        timed == [r.value EXCEPT !.execution_time = dt]
        counted == IF timed.success THEN Bump(st, "successful_executions")
                   ELSE Bump(st, "failed_executions")
    IN IF r.exc # "None"
       THEN Return(ToolResult(FALSE, NoneV, StrV("Execution error: " \o r.exc), dt, <<>>),
                   Bump(st, "failed_executions"), parameters, 1, exec)
       ELSE IF ~r.is_result
       THEN Return(ToolResult(FALSE, NoneV,
                              StrV("Execution error: 'str' object has no attribute"),
                              dt, <<>>),
                   Bump(st, "failed_executions"), parameters, 1, exec)
       ELSE Return(timed,
                   [counted EXCEPT !.total_execution_time = @ + dt], parameters, 1, exec)

\* executor.py lines 124-158: the inner try around tool.execute
RunTool(st, parameters, exec, dt) ==
    LET r == ToolExecute(exec)
        result == IF r.is_result THEN r.value
                  ELSE ToolResult(TRUE, r.value, NoneV, 0, <<>>)
        timed == [result EXCEPT !.execution_time = dt]
        counted == IF timed.success THEN Bump(st, "successful_executions")
                   ELSE Bump(st, "failed_executions")
    IN IF r.exc # "None"
       THEN Return(ToolResult(FALSE, NoneV, StrV("Execution error: " \o r.exc), dt, <<>>),
                   Bump(st, "failed_executions"), parameters, 1, exec)
       ELSE Return(timed,
                   [counted EXCEPT !.total_execution_time = @ + dt], parameters, 1, exec)

StrList(strs) == ListV([i \in 1..Len(strs) |-> StrV(strs[i])])

\* Screen counting a blocked call as a failed one
Screen_CountsFailed(ex, st, parameters, exec, dt) ==
    LET sv == validate_parameters(parameters, ex.allow_warnings)
    IN IF ex.safety_enabled /\ ex.safety_validator /\ ~sv.is_safe
       THEN Return(ToolResult(FALSE, NoneV,
                              StrV("Safety validation failed: " \o Join("; ", sv.violations)),
                              dt, << Entry("safety_violations", StrList(sv.violations)) >>),
                   Bump(st, "failed_executions"), parameters, 0, "none")
       ELSE RunTool(st, parameters, exec, dt)

\* executor.py lines 97-158: the safety screen, then the tool
Screen(ex, st, parameters, exec, dt) ==
    LET sv == validate_parameters(parameters, ex.allow_warnings)
    IN IF ex.safety_enabled /\ ex.safety_validator /\ ~sv.is_safe
       THEN Return(ToolResult(FALSE, NoneV,
                              StrV("Safety validation failed: " \o Join("; ", sv.violations)),
                              dt, << Entry("safety_violations", StrList(sv.violations)) >>),
                   Bump(st, "blocked_executions"), parameters, 0, "none")
       ELSE RunTool(st, parameters, exec, dt)

\* executor.py lines 77-158: the body of the outer try
TryBody(reg, ex, st, tool_name, parameters, beh, dt) ==
    LET got == _get_tool(reg.tools, reg.metadata, tool_name, beh.ctor)
        checked == tool_validate_parameters(ToolClasses[got.tool], parameters)
    IN IF got.is_result
       THEN Return(got.result, Bump(st, "failed_executions"), parameters, 0, "none")
       ELSE IF beh.validate = "raises"
       THEN Raise("validate failed", st, parameters, 0, "none")
       ELSE IF ~checked.ok
       THEN Return(ToolResult(FALSE, NoneV,
                              StrV("Parameter validation failed: " \o checked.error),
                              dt, <<>>),
                   Bump(st, "failed_executions"), checked.params, 0, "none")
       ELSE Screen(ex, st, checked.params, beh.exec, dt)

\* Handler with an except clause that matches no fault: the fault leaves execute
Handler_Propagates(body, dt) == body

\* executor.py lines 160-168: the handler of the outer try
Handler(body, dt) ==
    IF body.exc # "None"
    THEN Return(ToolResult(FALSE, NoneV, StrV("Executor error: " \o body.exc), dt, <<>>),
                Bump(body.stats, "failed_executions"), body.params, body.invoked,
                body.exec)
    ELSE body

\* execute adding the elapsed time of every call to total_execution_time
execute_TimesEveryCall(reg, ex, tool_name, parameters, beh, dt) ==
    Only({[out EXCEPT !.stats.total_execution_time = ex.stats.total_execution_time + dt] :
          out \in {Handler(TryBody(reg, ex, Bump(ex.stats, "total_executions"), tool_name,
                                   parameters, beh, dt),
                           dt)}})

\* ToolExecutor.execute(tool_name, parameters) on the executor ex (its
\* settings and statistics) with the registry reg
execute(reg, ex, tool_name, parameters, beh, dt) ==
    Handler(TryBody(reg, ex, Bump(ex.stats, "total_executions"), tool_name, parameters,
                    beh, dt),
            dt)

\* executor.py lines 183-205: the loop of execute_batch over the tool calls
\* still to run, with the results and the executed calls so far; a fault of
\* execute would leave execute_batch with it
RECURSIVE BatchLoop(_, _, _, _, _, _, _)
BatchLoop(reg, ex, tool_calls, stop_on_error, dt, results, executed) ==
    IF tool_calls = <<>>
    THEN [exc |-> "None", results |-> results, stats |-> ex.stats, executed |-> executed]
    ELSE Only({
           IF out.exc # "None"
           THEN [exc |-> out.exc, results |-> <<>>, stats |-> out.stats,
                 executed |-> Append(executed, Head(tool_calls))]
           ELSE IF stop_on_error /\ ~out.result.success
           THEN [exc |-> "None", results |-> Append(results, out.result),
                 stats |-> out.stats, executed |-> Append(executed, Head(tool_calls))]
           ELSE BatchLoop(reg, [ex EXCEPT !.stats = out.stats], Tail(tool_calls),
                          stop_on_error, dt, Append(results, out.result),
                          Append(executed, Head(tool_calls))) :
           out \in {execute(reg, ex, Head(tool_calls).tool_name,
                            Head(tool_calls).parameters, Head(tool_calls).beh, dt)}})

\* execute_batch that goes on after an unsuccessful outcome
execute_batch_IgnoresStop(reg, ex, tool_calls, stop_on_error, dt) ==
    BatchLoop(reg, ex, tool_calls, FALSE, dt, <<>>, <<>>)

\* ToolExecutor.execute_batch(tool_calls, stop_on_error)
execute_batch(reg, ex, tool_calls, stop_on_error, dt) ==
    BatchLoop(reg, ex, tool_calls, stop_on_error, dt, <<>>, <<>>)

(***************************************************************************)
(* Executor specification: execute calls on one executor                   *)
(***************************************************************************)
ToolNames == {"probe", "legacy", "ghost"}

Params1(k1, v1) == << Entry(k1, v1) >>
Params2(k1, v1, k2, v2) == << Entry(k1, v1), Entry(k2, v2) >>

\* The parameter maps of the execute calls.
ParamMaps ==
    { <<>>,
      Params1("command", StrV("echo hi")),
      Params1("command", StrV("rm -rf /tmp/x")),
      Params1("command", StrV("chmod 777 foo")),
      Params1("command", StrV("mkfs; chmod 777 x")),
      Params1("command", IntV(5)),
      Params2("command", StrV("echo hi"), "bogus", StrV("rm -rf /tmp/x")),
      Params2("command", StrV("echo hi"), "path", StrV("/etc/")),
      Params2("command", StrV("echo hi"), "path", StrV("/etc/passwd")),
      Params2("command", StrV("echo hi"), "path", StrV("/")),
      Params2("command", StrV("echo hi"), "timeout", IntV(5)),
      Params2("command", StrV("echo hi"), "opts",
              DictV(Params1("inner", StrV("rm -rf /tmp/x")))),
      Params2("command", StrV("echo hi"), "items",
              ListV(<< StrV("chmod 777 foo") >>)),
      Params2("command", StrV("echo hi"), "items",
              ListV(<< ListV(<< StrV("rm -rf /tmp/x") >>) >>)),
      Params2("command", StrV("echo hi"), "items",
              ListV(<< DictV(Params1("k", StrV("mkfs; chmod 777 x"))) >>)) }

Call(n, p, b) == [tool_name |-> n, parameters |-> p, beh |-> b]

\* The execute calls: every parameter map on the enabled tool with a tool
\* that works; every behaviour of the tool on a clean map, one with a warning
\* and one under a system path; three maps on the names that do not resolve.
Calls ==
    {Call("probe", p, Behaviour("ok", "ok", "returns_ok")) : p \in ParamMaps}
        \cup {Call("probe", p, b) :
                p \in { Params1("command", StrV("echo hi")),
                        Params1("command", StrV("chmod 777 foo")),
                        Params2("command", StrV("echo hi"), "path", StrV("/etc/passwd")) },
                b \in Behaviours}
        \cup {Call(n, p, Behaviour("ok", "ok", "returns_ok")) :
                n \in ToolNames \ {"probe"},
                p \in { <<>>, Params1("command", StrV("echo hi")),
                        Params1("command", StrV("rm -rf /tmp/x")) }}

Metadata(cls, en) == [tool_class |-> cls, category |-> "None", tags |-> <<>>, enabled |-> en]

\* ToolExecutor.__init__: the counters of a fresh executor
NewStats ==
    [total_executions |-> 0, successful_executions |-> 0, failed_executions |-> 0,
     blocked_executions |-> 0, total_execution_time |-> 0]

NoCall ==
    [called |-> FALSE, tool_name |-> "None", parameters |-> <<>>,
     beh |-> Behaviour("ok", "ok", "returns_ok"), raised |-> FALSE,
     result |-> ToolResult(FALSE, NoneV, NoneV, 0, <<>>), invoked |-> 0, exec |-> "none",
     elapsed |-> 0, received |-> <<>>]

NoScan == [op |-> "none", arg |-> NoneV, allow_warnings |-> TRUE,
           ret |-> [is_safe |-> TRUE, violations |-> <<>>]]

\* the locals of chat_with_tools before any call of it
NoFrame ==
    [message |-> "None", max_tool_iterations |-> 0, iteration |-> 0, messages |-> <<>>,
     tool_schemas |-> <<>>, response |-> [content |-> NoneV, tool_calls |-> <<>>],
     call_idx |-> 0, returned |-> [content |-> NoneV, tool_calls |-> <<>>],
     error |-> "None"]

\* The registry after ProbeTool was registered enabled and LegacyTool disabled.
InitRegistry ==
    /\ _tools = << Entry("probe", "ProbeTool"), Entry("legacy", "LegacyTool") >>
    /\ _metadata = << Entry("probe", Metadata("ProbeTool", TRUE)),
                      Entry("legacy", Metadata("LegacyTool", FALSE)) >>
    /\ instances = <<>>

\* an agent constructed without tools that has made no call
InitNoAgent ==
    /\ enable_tools = FALSE
    /\ available_tools = <<>>
    /\ tool_executor = FALSE
    /\ history = <<>>
    /\ tool_history = <<>>
    /\ pc = "idle"
    /\ frame = NoFrame
    /\ llm_calls = <<>>

\* no execute_batch call made and no concurrent caller started
NoBatch ==
    [called |-> FALSE, tool_calls |-> <<>>, stop_on_error |-> FALSE, raised |-> FALSE,
     results |-> <<>>, executed |-> <<>>, elapsed |-> 0]

InitNoCallers ==
    /\ batch = NoBatch
    /\ threads = <<>>

\* The registry with the two tools, and an executor constructed with either
\* setting of safety_enabled and allow_warnings.
Init ==
    /\ InitRegistry
    /\ safety_enabled \in BOOLEAN
    /\ allow_warnings \in BOOLEAN
    /\ safety_validator = safety_enabled
    /\ stats = NewStats
    /\ last = NoCall
    /\ scan = NoScan
    /\ InitNoAgent
    /\ InitNoCallers

\* the registry and the executor as the state holds them
Registry == [tools |-> _tools, metadata |-> _metadata]
Executor ==
    [safety_enabled |-> safety_enabled, safety_validator |-> safety_validator,
     allow_warnings |-> allow_warnings, stats |-> stats]

\* one call of ToolExecutor.execute(tool_name, parameters)
Execute(tool_name, parameters, beh, dt) ==
    /\ stats.total_executions < MaxExecs
    /\ \E out \in {execute(Registry, Executor, tool_name, parameters, beh, dt)} :
          /\ stats' = out.stats
          /\ last' = [called |-> TRUE, tool_name |-> tool_name,
                      parameters |-> parameters, beh |-> beh,
                      raised |-> out.exc # "None",
                      result |-> out.result, invoked |-> out.invoked,
                      exec |-> out.exec, elapsed |-> dt, received |-> out.params]
    /\ UNCHANGED << regVars, safety_enabled, allow_warnings, safety_validator, scan,
                    agentVars, loopVars, callerVars >>

Next ==
    \E call \in Calls, dt \in 1..MaxElapsed :
        Execute(call.tool_name, call.parameters, call.beh, dt)

Spec == Init /\ [][Next]_vars

(***************************************************************************)
(* Properties of the executor                                              *)
(***************************************************************************)
\* this step is one execute call
CallStep == stats'.total_executions = stats.total_executions + 1

\* the stages of the call of this step, recomputed from its inputs
Got == _get_tool(_tools, _metadata, last'.tool_name, last'.beh.ctor)
Checked == tool_validate_parameters(ToolClasses[Got.tool], last'.parameters)
ReachesScreen == ~Got.is_result /\ last'.beh.validate = "ok" /\ Checked.ok
Screened == validate_parameters(Checked.params, allow_warnings)

\* a string of the value, at any depth, matches a rule of the severity
TextMatches(text, severity) ==
    \E i \in 1..Len(rules) :
        rules[i].severity = severity /\ PatternSearch(rules[i].name, text)

RECURSIVE ValueMatches(_, _)
ValueMatches(value, severity) ==
    CASE value.t = "str" -> TextMatches(value.v, severity)
      [] value.t = "list" ->
            \E i \in 1..Len(value.v) : ValueMatches(value.v[i], severity)
      [] value.t = "dict" ->
            \E i \in 1..Len(value.v) : ValueMatches(value.v[i].val, severity)
      [] OTHER -> FALSE

ParamsMatch(params, severity) == ValueMatches(DictV(params), severity)

HasTag(violations, tag) ==
    \E i \in 1..Len(violations) : Contains(violations[i], tag)

\* the call of this step came back as a safety block
BlockedOutcome ==
    /\ ~last'.raised
    /\ ~last'.result.success
    /\ HasKey(last'.result.metadata, "safety_violations")
    /\ DictGet(last'.result.metadata, "safety_violations").v # <<>>
    /\ stats'.blocked_executions = stats.blocked_executions + 1
    /\ stats'.failed_executions = stats.failed_executions
    /\ stats'.successful_executions = stats.successful_executions
    /\ last'.invoked = 0

\* C5: execute returns a ToolResult and never raises, whatever the tool name,
\* the parameters and the behaviour of the tool.
C5_ExecuteNeverRaises == last.called => ~last.raised

C5_Witness ==
    /\ last.called
    /\ last.beh.validate = "raises"
    /\ ~last.raised
    /\ last.result.error = StrV("Executor error: validate failed")

\* C6: every ToolResult returned by execute with success=false has a non-null
\* error.
C6_FailedHasError ==
    (last.called /\ ~last.raised /\ ~last.result.success) => last.result.error # NoneV

C8_WarningsProceed ==
    [][(CallStep /\ safety_enabled /\ safety_validator /\ allow_warnings
            /\ ReachesScreen
            /\ HasTag(Screened.violations, "[WARNING]")
            /\ \A i \in 1..Len(Screened.violations) :
                    Contains(Screened.violations[i], "[WARNING]"))
        => /\ Screened.is_safe
           /\ last'.invoked = 1]_vars

\* the call of this step ended as a failed execution without reaching the tool
FailedOutcome ==
    /\ ~last'.raised
    /\ ~last'.result.success
    /\ stats'.failed_executions = stats.failed_executions + 1
    /\ stats'.blocked_executions = stats.blocked_executions
    /\ stats'.successful_executions = stats.successful_executions
    /\ last'.invoked = 0

\* C14: create fails with ValueError for a name that is not registered and
\* for a name whose metadata marks it disabled, and execute answers both with
\* a failed ToolResult, counted as failed, without invoking any tool.
C14_UnresolvedFails ==
    [][(CallStep /\ (~HasKey(_tools, last'.tool_name)
                        \/ ~DictGet(_metadata, last'.tool_name).enabled))
        => /\ create(_tools, _metadata, last'.tool_name, last'.beh.ctor).exc = "ValueError"
           /\ FailedOutcome]_vars

C14_Witness ==
    /\ last.called
    /\ last.tool_name = "legacy"
    /\ last.parameters = Params1("command", StrV("echo hi"))
    /\ last.result.error = StrV("Tool not found: Tool 'legacy' is disabled")
    /\ stats.failed_executions = 1
    /\ last.invoked = 0

\* the parameters of the call of this step name a parameter the tool of that
\* name does not declare, or lack one it requires
UnknownOrMissing ==
    /\ HasKey(_tools, last'.tool_name)
    /\ LET declared == ToolClasses[DictGet(_tools, last'.tool_name)].parameters
       IN \/ DictKeys(last'.parameters) \ ParamNames(declared) # {}
          \/ \E i \in 1..Len(declared) :
                declared[i].required /\ ~HasKey(last'.parameters, declared[i].name)

C18_FaultsAndBareValues ==
    [][(CallStep /\ last'.invoked = 1) =>
        /\ last'.exec = "raises" =>
              /\ ~last'.raised
              /\ ~last'.result.success
              /\ Contains(last'.result.error.v, ToolExecute("raises").exc)
              /\ stats'.failed_executions = stats.failed_executions + 1
              /\ stats'.successful_executions = stats.successful_executions
        /\ last'.exec = "returns_bare" =>
              /\ ~last'.raised
              /\ last'.result.success
              /\ last'.result.output = ToolExecute("returns_bare").value
              /\ stats'.successful_executions = stats.successful_executions + 1
              /\ stats'.failed_executions = stats.failed_executions]_vars

\* a bare value after a fault, on the same executor
C18_Witness ==
    /\ last.called
    /\ last.invoked = 1
    /\ last.exec = "returns_bare"
    /\ last.result.success
    /\ last.result.output = StrV("bare")
    /\ stats.successful_executions = 1
    /\ stats.failed_executions = 1

\* C19: every ToolResult execute returns carries as execution_time the time
\* elapsed since the call started.
C19_AlwaysStamped ==
    (last.called /\ ~last.raised) => last.result.execution_time = last.elapsed

(***************************************************************************)
(* Batch specification: execute_batch calls on one executor                *)
(***************************************************************************)
\* The lists of tool calls handed to execute_batch, of calls that succeed
\* (echo), fail (an unregistered tool, a tool that raises) or are blocked.
Batches ==
    LET ok == Call("probe", Params1("command", StrV("echo hi")),
                   Behaviour("ok", "ok", "returns_ok"))
        ghost == Call("ghost", Params1("command", StrV("echo hi")),
                      Behaviour("ok", "ok", "returns_ok"))
        raises == Call("probe", Params1("command", StrV("echo hi")),
                       Behaviour("ok", "ok", "raises"))
        blocked == Call("probe", Params1("command", StrV("rm -rf /tmp/x")),
                        Behaviour("ok", "ok", "returns_ok"))
    IN { <<>>, << ok >>, << ghost >>, << ghost, ok >>, << ok, ghost >>, << ok, ok >>,
         << ok, raises, ok >>, << ok, blocked, ghost >>, << ghost, raises, ok >> }

\* one call of ToolExecutor.execute_batch(tool_calls, stop_on_error)
ExecuteBatch(tool_calls, stop_on_error, dt) ==
    /\ stats.total_executions < MaxExecs
    /\ \E out \in {execute_batch(Registry, Executor, tool_calls, stop_on_error, dt)} :
          /\ stats' = out.stats
          /\ batch' = [called |-> TRUE, tool_calls |-> tool_calls,
                       stop_on_error |-> stop_on_error, raised |-> out.exc # "None",
                       results |-> out.results, executed |-> out.executed,
                       elapsed |-> dt]
    /\ UNCHANGED << regVars, safety_enabled, allow_warnings, safety_validator, last, scan,
                    agentVars, loopVars, threads >>

NextBatch ==
    \E tool_calls \in Batches, stop_on_error \in BOOLEAN, dt \in 1..MaxElapsed :
        ExecuteBatch(tool_calls, stop_on_error, dt)

SpecBatch == Init /\ [][NextBatch]_vars

\* this step is one execute_batch call
BatchStep == batch' # batch \/ stats' # stats

\* the outcome of the i-th call of the batch of this step, run on its own
Outcome(i) ==
    execute(Registry, Executor, batch'.tool_calls[i].tool_name,
            batch'.tool_calls[i].parameters, batch'.tool_calls[i].beh,
            batch'.elapsed).result

MaxThreads == 2

Threads == 1..MaxThreads

\* A statement  self.stats[c] += x  is a read of the entry, an addition and a
\* write of the entry; executor.py takes no lock, so another thread may run
\* between the read and the write.  tmp is the value read.
NoThread == [pc |-> "idle", call |-> 0, tmp |-> 0, counter |-> "None", time |-> 0]

\* the calls the threads make: one that succeeds, one that fails, one blocked
ThreadCalls ==
    << Call("probe", Params1("command", StrV("echo hi")),
            Behaviour("ok", "ok", "returns_ok")),
       Call("ghost", Params1("command", StrV("echo hi")),
            Behaviour("ok", "ok", "returns_ok")),
       Call("probe", Params1("command", StrV("rm -rf /tmp/x")),
            Behaviour("ok", "ok", "returns_ok")) >>

InitThreads ==
    /\ InitRegistry
    /\ safety_enabled = TRUE
    /\ allow_warnings = TRUE
    /\ safety_validator = TRUE
    /\ stats = NewStats
    /\ last = NoCall
    /\ scan = NoScan
    /\ InitNoAgent
    /\ batch = NoBatch
    /\ threads = [t \in Threads |-> NoThread]

ThreadFrame == << regVars, safety_enabled, allow_warnings, safety_validator, last, scan,
                  agentVars, loopVars, batch >>

\* executor.py line 74, first half: the thread enters execute and reads
\* stats["total_executions"]
ReadTotal(t, call) ==
    /\ threads[t].pc = "idle"
    /\ threads' = [threads EXCEPT ![t] = [@ EXCEPT !.pc = "write_total", !.call = call,
                                                   !.tmp = stats.total_executions]]
    /\ UNCHANGED << stats, ThreadFrame >>

\* executor.py line 74, second half: the write of stats["total_executions"]
WriteTotal(t) ==
    /\ threads[t].pc = "write_total"
    /\ stats' = [stats EXCEPT !.total_executions = threads[t].tmp + 1]
    /\ threads' = [threads EXCEPT ![t].pc = "body"]
    /\ UNCHANGED ThreadFrame

\* the counter a call adds one to, and the time it adds to total_execution_time
CountedAs(call) ==
    LET out == execute(Registry, [Executor EXCEPT !.stats = NewStats], call.tool_name,
                       call.parameters, call.beh, Elapsed)
    IN [counter |-> CHOOSE c \in {"successful_executions", "failed_executions",
                                  "blocked_executions"} : out.stats[c] = 1,
        time |-> out.stats.total_execution_time]

\* executor.py lines 76-133: the call runs up to the statement that counts its
\* outcome, and reads that counter
ReadCounter(t) ==
    /\ threads[t].pc = "body"
    /\ \E counted \in {CountedAs(ThreadCalls[threads[t].call])} :
          threads' = [threads EXCEPT ![t] = [@ EXCEPT !.pc = "write_counter",
                                                      !.counter = counted.counter,
                                                      !.time = counted.time,
                                                      !.tmp = stats[counted.counter]]]
    /\ UNCHANGED << stats, ThreadFrame >>

\* the write of the outcome counter; a call that ran the tool goes on to
\* stats["total_execution_time"] += execution_time, the others return
WriteCounter(t) ==
    /\ threads[t].pc = "write_counter"
    /\ stats' = [stats EXCEPT ![threads[t].counter] = threads[t].tmp + 1]
    /\ threads' = [threads EXCEPT ![t].pc = IF threads[t].time > 0 THEN "read_time"
                                            ELSE "done"]
    /\ UNCHANGED ThreadFrame

\* executor.py line 141, first half
ReadTime(t) ==
    /\ threads[t].pc = "read_time"
    /\ threads' = [threads EXCEPT ![t] = [@ EXCEPT !.pc = "write_time",
                                                   !.tmp = stats.total_execution_time]]
    /\ UNCHANGED << stats, ThreadFrame >>

\* executor.py line 141, second half, and the return
WriteTime(t) ==
    /\ threads[t].pc = "write_time"
    /\ stats' = [stats EXCEPT !.total_execution_time = threads[t].tmp + threads[t].time]
    /\ threads' = [threads EXCEPT ![t].pc = "done"]
    /\ UNCHANGED ThreadFrame

NextThreads ==
    \E t \in Threads :
        \/ \E call \in 1..Len(ThreadCalls) : ReadTotal(t, call)
        \/ WriteTotal(t)
        \/ ReadCounter(t)
        \/ WriteCounter(t)
        \/ ReadTime(t)
        \/ WriteTime(t)

SpecThreads == InitThreads /\ [][NextThreads]_vars

Completed == {t \in Threads : threads[t].pc = "done"}

\* C16: once no thread is inside execute, total_executions equals the number
\* of completed calls, and so does the sum of the three outcome counters.
C16_NoLostUpdate ==
    (\A t \in Threads : threads[t].pc \in {"idle", "done"})
        => /\ stats.total_executions = Cardinality(Completed)
           /\ stats.successful_executions + stats.failed_executions
                + stats.blocked_executions = Cardinality(Completed)

(***************************************************************************)
(* Validator specification: calls of the SafetyValidator methods           *)
(***************************************************************************)
\* nesting depth of the structured values handed to validate_parameters
MaxDepth == 2

ScanTexts ==
    {"echo hi", "rm -rf /tmp/x", "chmod 777 foo", "mkfs; chmod 777 x", "/etc"}

\* values nested up to depth d: a leaf, or a one-element list or dict of a
\* value of depth d - 1
RECURSIVE ValuesUpTo(_)
ValuesUpTo(d) ==
    IF d = 0 THEN {StrV(t) : t \in ScanTexts} \cup {IntV(1)}
    ELSE LET inner == ValuesUpTo(d - 1)
         IN {StrV(t) : t \in ScanTexts} \cup {IntV(1)}
                \cup {ListV(<< x >>) : x \in inner}
                \cup {DictV(Params1("inner", x)) : x \in inner}

ScanParams ==
    {Params1(key, x) : key \in {"command", "path", "workDIR"}, x \in ValuesUpTo(MaxDepth)}
        \cup {Params2("a", StrV(t1), "b", ListV(<< StrV(t2), IntV(1), StrV(t1) >>)) :
                t1 \in {"chmod 777 foo", "echo hi"}, t2 \in {"rm -rf /tmp/x", "chmod 777 foo"}}

InitSafety ==
    /\ Init
    /\ safety_enabled = TRUE
    /\ allow_warnings = TRUE

ValidateCommand(command, allow) ==
    /\ scan' = [op |-> "validate_command", arg |-> StrV(command), allow_warnings |-> allow,
              ret |-> validate_command(command, allow)]
    /\ UNCHANGED << regVars, execVars, agentVars, loopVars, callerVars >>

ValidatePath(path) ==
    /\ scan' = [op |-> "validate_path", arg |-> StrV(path), allow_warnings |-> TRUE,
              ret |-> validate_path(path)]
    /\ UNCHANGED << regVars, execVars, agentVars, loopVars, callerVars >>

ValidateParameters(params, allow) ==
    /\ scan' = [op |-> "validate_parameters", arg |-> DictV(params), allow_warnings |-> allow,
              ret |-> validate_parameters(params, allow)]
    /\ UNCHANGED << regVars, execVars, agentVars, loopVars, callerVars >>

NextSafety ==
    \/ \E command \in Texts, allow \in BOOLEAN : ValidateCommand(command, allow)
    \/ \E path \in Texts : ValidatePath(path)
    \/ \E params \in ScanParams, allow \in BOOLEAN : ValidateParameters(params, allow)

SpecSafety == InitSafety /\ [][NextSafety]_vars

MatchingRules(text) == {i \in 1..Len(rules) : PatternSearch(rules[i].name, text)}

\* C10: validate_command returns one violation per matching rule, and
\* is_safe=false exactly when a matching rule has error severity, or has
\* warning severity while allow_warnings=false.
C10_ValidateCommand ==
    scan.op = "validate_command"
        => LET m == MatchingRules(scan.arg.v)
           IN /\ Len(scan.ret.violations) = Cardinality(m)
              /\ \A i \in m :
                    \E j \in 1..Len(scan.ret.violations) :
                        scan.ret.violations[j]
                            = "[" \o Upper(rules[i].severity) \o "] " \o rules[i].message
              /\ scan.ret.is_safe
                    = ~\E i \in m :
                          \/ rules[i].severity = "error"
                          \/ rules[i].severity = "warning" /\ ~scan.allow_warnings

C10_Witness ==
    /\ scan.op = "validate_command"
    /\ scan.arg = StrV("killall -9 x; chmod 777 y")
    /\ scan.allow_warnings
    /\ scan.ret.is_safe
    /\ Len(scan.ret.violations) = 2

\* path is root followed by any number of slashes
RECURSIVE IsRootWithSlashes(_, _)
IsRootWithSlashes(path, root) ==
    \/ path = root
    \/ /\ Len(path) > Len(root)
       /\ SubSeq(path, Len(path), Len(path)) = "/"
       /\ IsRootWithSlashes(SubSeq(path, 1, Len(path) - 1), root)

IsCriticalRoot(path) ==
    \E i \in 1..Len(DANGEROUS_PATHS) : IsRootWithSlashes(path, DANGEROUS_PATHS[i])

\* path names something below a critical root and is not a critical root itself
NestedUnderRoot(path) ==
    /\ ~IsCriticalRoot(path)
    /\ \E i \in 1..Len(DANGEROUS_PATHS) :
          LET root == DANGEROUS_PATHS[i]
              below == IF root = "/" THEN root ELSE root \o "/"
          IN Len(path) > Len(below) /\ SubSeq(path, 1, Len(below)) = below

\* C11: validate_path returns is_safe=false for every path that is one of the
\* critical roots of DANGEROUS_PATHS, "/" included, with or without trailing
\* slashes.
C11_RootsRejected ==
    (scan.op = "validate_path" /\ IsCriticalRoot(scan.arg.v)) => ~scan.ret.is_safe

\* C12: validate_path answers a path nested under a critical root with
\* is_safe=true and a message.
C12_NestedSafeWithWarning ==
    (scan.op = "validate_path" /\ NestedUnderRoot(scan.arg.v))
        => scan.ret.is_safe /\ scan.ret.message # "None"

\* C13: validate_parameters reports a violation for a string that matches a
\* rule at any nesting depth of dict and list values.
C13_DescendsEverywhere ==
    \A severity \in {"error", "warning"} :
        (scan.op = "validate_parameters" /\ ParamsMatch(scan.arg.v, severity))
            => HasTag(scan.ret.violations, "[" \o Upper(severity) \o "]")

(***************************************************************************)
(* Agent and tool-calling loop (core/agent.py)                             *)
(***************************************************************************)
\* largest max_tool_iterations a chat_with_tools call is given
MaxIterations == 2

\* _build_messages_with_history keeps the last max_history entries
max_history == 10

\* response.choices[0].message of an LLM response, and one of its tool calls
Response(content, tool_calls) == [content |-> content, tool_calls |-> tool_calls]
ToolCallReq(id, name, arguments) ==
    [id |-> id, function |-> [name |-> name, arguments |-> arguments]]

NoResponse == Response(NoneV, <<>>)

\* argument payloads of the tool calls the LLM requests
ArgEcho == "{\"command\": \"echo hi\"}"
ArgRm == "{\"command\": \"rm -rf /tmp/x\"}"
ArgCut == "{\"command\": "
ArgList == "[1]"
ArgName == "{\"tool_name\": \"probe\"}"

\* json.loads(tool_call.function.arguments) on the payloads of the model:
\* the parsed value, or the JSONDecodeError raised on the truncated payload
JsonLoads(text) ==
    CASE text = ArgEcho ->
            [exc |-> "None", value |-> DictV(Params1("command", StrV("echo hi")))]
      [] text = ArgRm ->
            [exc |-> "None", value |-> DictV(Params1("command", StrV("rm -rf /tmp/x")))]
      [] text = ArgList -> [exc |-> "None", value |-> ListV(<< IntV(1) >>)]
      [] text = ArgName ->
            [exc |-> "None", value |-> DictV(Params1("tool_name", StrV("probe")))]
      [] OTHER -> [exc |-> "JSONDecodeError", value |-> NoneV]

\* json.dumps({"success": .., "output": .., "error": ..}): the text, kept as
\* the object it encodes, or the TypeError raised on an output that is not
\* serialisable
JsonDumps(payload) ==
    IF payload.output.t = "object"
    THEN [exc |-> "Object is not JSON serializable", text |-> NoneV]
    ELSE [exc |-> "None", text |-> [t |-> "json", v |-> payload]]

Payload(succ, out, err) == [success |-> succ, output |-> out, error |-> err]

UserMsg(content) == [role |-> "user", content |-> content]
AssistantMsg(content) == [role |-> "assistant", content |-> content]
ToolMsg(id, content) == [role |-> "tool", tool_call_id |-> id, content |-> content]

\* an assistant message that keeps the text of the response only
AssistantToolMsg_ContentOnly(message) ==
    [role |-> "assistant",
     content |-> IF message.content \in {NoneV, StrV("")} THEN StrV("") ELSE message.content,
     tool_calls |-> <<>>]

\* the assistant message chat_with_tools appends for a response with tool calls
AssistantToolMsg(message) ==
    [role |-> "assistant",
     content |-> IF message.content \in {NoneV, StrV("")} THEN StrV("") ELSE message.content,
     tool_calls |->
        [i \in 1..Len(message.tool_calls) |->
            [id |-> message.tool_calls[i].id, type |-> "function",
             function |-> [name |-> message.tool_calls[i].function.name,
                           arguments |-> message.tool_calls[i].function.arguments]]]]

\* the loop of _build_messages_with_history over the history entries
RECURSIVE HistoryMessages(_)
HistoryMessages(entries) ==
    IF entries = <<>> THEN <<>>
    ELSE << UserMsg(DictGet(Head(entries), "user")) >>
         \o (IF HasKey(Head(entries), "assistant")
             THEN << AssistantMsg(DictGet(Head(entries), "assistant")) >>
             ELSE <<>>)
         \o HistoryMessages(Tail(entries))

\* _build_messages_with_history keeping the first max_history entries
_build_messages_with_history_OldestKept(hist, new_message) ==
    LET recent_history ==
            IF Len(hist) > max_history THEN SubSeq(hist, 1, max_history) ELSE hist
    IN HistoryMessages(recent_history) \o << UserMsg(StrV(new_message)) >>

\* BaseAgent._build_messages_with_history(new_message)
_build_messages_with_history(hist, new_message) ==
    LET recent_history ==
            IF Len(hist) > max_history
            THEN SubSeq(hist, Len(hist) - max_history + 1, Len(hist))
            ELSE hist
    IN HistoryMessages(recent_history) \o << UserMsg(StrV(new_message)) >>

\* BaseAgent._update_history(user_message, response): the history afterwards
_update_history(hist, user_message, response) ==
    Append(hist, << Entry("user", StrV(user_message)),
                    Entry("assistant", response.content) >>)

\* the names of the required parameters, in declaration order
RECURSIVE RequiredNames(_)
RequiredNames(parameters) ==
    IF parameters = <<>> THEN <<>>
    ELSE (IF Head(parameters).required THEN << Head(parameters).name >> ELSE <<>>)
         \o RequiredNames(Tail(parameters))

\* to_openai_schema with the "required" key set whether or not a name is required
to_openai_schema_AlwaysRequired(tool) ==
    LET properties == [i \in 1..Len(tool.parameters) |->
                          Entry(tool.parameters[i].name, tool.parameters[i].param_type)]
        required == RequiredNames(tool.parameters)
    IN [type |-> "function",
        function |->
           [name |-> tool.name, description |-> tool.description,
            parameters |->
               << Entry("type", "object"), Entry("properties", properties),
                  Entry("required", required) >>]]

\* BaseTool.to_openai_schema: name, description, the type of every parameter
\* and, when there is one, the list of required names
to_openai_schema(tool) ==
    LET properties == [i \in 1..Len(tool.parameters) |->
                          Entry(tool.parameters[i].name, tool.parameters[i].param_type)]
        required == RequiredNames(tool.parameters)
    IN [type |-> "function",
        function |->
           [name |-> tool.name, description |-> tool.description,
            parameters |->
               << Entry("type", "object"), Entry("properties", properties) >>
               \o (IF required # <<>> THEN << Entry("required", required) >> ELSE <<>>)]]

\* ToolRegistry.list_tools(enabled_only)
list_tools(reg, enabled_only) ==
    IF enabled_only
    THEN SelectSeq(KeySeq(reg.metadata), LAMBDA name : DictGet(reg.metadata, name).enabled)
    ELSE KeySeq(reg.tools)

\* the tools whose constructor and whose get_schema raise during a call
NoFaults == [ctor |-> {}, schema |-> {}]

\* registry.py lines 220-225: the body of the loop of get_schemas for one
\* name; a fault of create or of get_schema is logged and yields no schema
SchemaOf(reg, tool_name, faults) ==
    LET c == create(reg.tools, reg.metadata, tool_name,
                    IF tool_name \in faults.ctor THEN "boom" ELSE "ok")
    IN IF c.exc = "None" /\ tool_name \notin faults.schema
       THEN << to_openai_schema(ToolClasses[c.tool]) >>
       ELSE <<>>

\* registry.py lines 219-225: the loop of get_schemas over the names
RECURSIVE SchemaLoop(_, _, _)
SchemaLoop(reg, names, faults) ==
    IF names = <<>> THEN <<>>
    ELSE SchemaOf(reg, Head(names), faults) \o SchemaLoop(reg, Tail(names), faults)

\* the names get_schemas goes through: the given list, or the enabled tools
RequestedNames(reg, tool_names) ==
    IF tool_names = NoneV THEN list_tools(reg, TRUE)
    ELSE [i \in 1..Len(tool_names.v) |-> tool_names.v[i].v]

\* get_schemas leaving its loop at the first name that yields no schema
get_schemas_StopsAtFailure(reg, tool_names, faults) ==
    LET names == RequestedNames(reg, tool_names)
        failing == {i \in 1..Len(names) : SchemaOf(reg, names[i], faults) = <<>>}
        upto == IF failing = {} THEN Len(names)
                ELSE (CHOOSE i \in failing : \A j \in failing : i <= j) - 1
    IN SchemaLoop(reg, SubSeq(names, 1, upto), faults)

\* ToolRegistry.get_schemas(tool_names)
get_schemas(reg, tool_names, faults) ==
    SchemaLoop(reg, RequestedNames(reg, tool_names), faults)

\* use_tool raising before the executor is reached
Refused(msg, ex, ag) ==
    [exc |-> msg, result |-> ToolResult(FALSE, NoneV, NoneV, 0, <<>>), stats |-> ex.stats,
     tool_history |-> ag.tool_history]

\* use_tool keeping a record of the calls that succeeded only
Tracked_SuccessOnly(ag, tool_name, out) ==
    IF out.exc # "None" \/ ~out.result.success
    THEN [exc |-> out.exc, result |-> out.result, stats |-> out.stats,
          tool_history |-> ag.tool_history]
    ELSE [exc |-> "None", result |-> out.result, stats |-> out.stats,
          tool_history |->
             Append(ag.tool_history,
                    [tool |-> tool_name, params |-> out.params, result |-> out.result])]

\* agent.py lines 316-321: use_tool after executor.execute has ended with out
Tracked(ag, tool_name, out) ==
    IF out.exc # "None"
    THEN [exc |-> out.exc, result |-> out.result, stats |-> out.stats,
          tool_history |-> ag.tool_history]
    ELSE [exc |-> "None", result |-> out.result, stats |-> out.stats,
          tool_history |->
             Append(ag.tool_history,
                    [tool |-> tool_name, params |-> out.params, result |-> out.result])]

\* BaseAgent.use_tool(tool_name, **tool_params) as chat_with_tools calls it:
\* the exception raised ("None" when it returns), the result, and the stats of
\* the agent's executor and its tool_history afterwards
use_tool(reg, ex, ag, tool_name, tool_params, beh, dt) ==
    IF tool_params.t # "dict"
    THEN Refused("argument after ** must be a mapping", ex, ag)
    ELSE IF HasKey(tool_params.v, "tool_name")
    THEN Refused("got multiple values for argument 'tool_name'", ex, ag)
    ELSE IF ~ag.enable_tools \/ ~ag.tool_executor
    THEN Refused("Tools not enabled for this agent", ex, ag)
    ELSE Only({Tracked(ag, tool_name, out) :
                 out \in {execute(reg, ex, tool_name, tool_params.v, beh, dt)}})

\* the tool message with a handler whose payload has no output key
Answer_ShortPayload(tool_call, used) ==
    LET dumped == JsonDumps(Payload(used.result.success, used.result.output,
                                    used.result.error))
        failure == IF used.exc # "None" THEN used.exc ELSE dumped.exc
        content == IF failure # "None"
                   THEN [t |-> "json", v |-> [success |-> FALSE, error |-> StrV(failure)]]
                   ELSE dumped.text
    IN [message |-> ToolMsg(tool_call.id, content), stats |-> used.stats,
        tool_history |-> used.tool_history]

\* agent.py lines 405-430: the tool message of a call once use_tool has ended
\* with used: the payload of its result, or that of the except handler when
\* use_tool or json.dumps raised
Answer(tool_call, used) ==
    LET dumped == JsonDumps(Payload(used.result.success, used.result.output,
                                    used.result.error))
        failure == IF used.exc # "None" THEN used.exc ELSE dumped.exc
        content == IF failure # "None"
                   THEN JsonDumps(Payload(FALSE, NoneV, StrV(failure))).text
                   ELSE dumped.text
    IN [message |-> ToolMsg(tool_call.id, content), stats |-> used.stats,
        tool_history |-> used.tool_history]

\* a handler that answers the call without running it
RunToolCall_Skips(reg, ex, ag, tool_call, tool_params, beh, dt) ==
    Answer(tool_call, Refused("skipped", ex, ag))

\* agent.py lines 402-430: the try around use_tool and the tool message
RunToolCall(reg, ex, ag, tool_call, tool_params, beh, dt) ==
    Only({Answer(tool_call, used) :
            used \in {use_tool(reg, ex, ag, tool_call.function.name, tool_params,
                               beh, dt)}})

(***************************************************************************)
(* Loop specification: one chat_with_tools call of an agent                *)
(***************************************************************************)
Agent ==
    [enable_tools |-> enable_tools, tool_executor |-> tool_executor,
     tool_history |-> tool_history]

\* the tool calls the LLM requests, by tool name and argument payload
CallKinds ==
    [echo |-> << "probe", ArgEcho >>, cut |-> << "probe", ArgCut >>,
     list |-> << "probe", ArgList >>, ghost |-> << "ghost", ArgEcho >>,
     rm |-> << "probe", ArgRm >>, name |-> << "probe", ArgName >>]

Req(id, kind) == ToolCallReq(id, CallKinds[kind][1], CallKinds[kind][2])

\* The responses of the LLM: a final answer, one tool call of every kind, and
\* pairs of tool calls.
Responses ==
    { Response(StrV("final answer"), <<>>) }
        \cup {Response(StrV("working"), << Req("call_1", k) >>) : k \in DOMAIN CallKinds}
        \cup {Response(NoneV, << Req("call_1", p[1]), Req("call_2", p[2]) >>) :
                p \in { << "echo", "echo" >>, << "cut", "echo" >>, << "echo", "cut" >>,
                        << "list", "ghost" >> }}

\* what the tool does when a call of the loop reaches it
LoopBehaviours ==
    {Behaviour("ok", "ok", e) : e \in {"returns_ok", "returns_object", "raises"}}

\* An agent constructed with or without tools, with an empty history or one
\* earlier turn; its executor is ToolExecutor() with the default settings.
InitLoop ==
    /\ InitRegistry
    /\ safety_enabled = TRUE
    /\ allow_warnings = TRUE
    /\ safety_validator = TRUE
    /\ stats = NewStats
    /\ last = NoCall
    /\ scan = NoScan
    /\ enable_tools \in BOOLEAN
    /\ available_tools \in { <<>>, << "probe" >>, << "probe", "ghost" >> }
    /\ tool_executor = enable_tools
    /\ history \in { <<>>, << << Entry("user", StrV("earlier")),
                                 Entry("assistant", StrV("reply")) >> >> }
    /\ tool_history = <<>>
    /\ pc = "idle"
    /\ frame = NoFrame
    /\ llm_calls = <<>>
    /\ InitNoCallers

\* chat_with_tools entering the loop whether or not the agent has tools
StartChat_NoFallback(message, n) ==
    /\ pc = "idle"
    /\ frame' = [NoFrame EXCEPT
                    !.message = message, !.max_tool_iterations = n,
                    !.messages = _build_messages_with_history(history, message),
                    !.tool_schemas = get_schemas(Registry, StrList(available_tools),
                                                 NoFaults),
                    !.error = IF n = 0 THEN "UnboundLocalError" ELSE "None"]
    /\ pc' = IF n = 0 THEN "raised" ELSE "requesting"
    /\ UNCHANGED << regVars, execVars, scan, agentVars, llm_calls, callerVars >>

\* chat_with_tools(message, max_tool_iterations) up to its first LLM request:
\* the fallback to chat() when tools are off, else the message list and the
\* tool schemas; with no iteration to run, the return of the unbound response
\* raises
StartChat(message, n) ==
    /\ pc = "idle"
    /\ IF ~enable_tools \/ available_tools = <<>>
       THEN /\ frame' = [NoFrame EXCEPT
                            !.message = message, !.max_tool_iterations = n,
                            !.messages = IF history # <<>>
                                         THEN _build_messages_with_history(history, message)
                                         ELSE << UserMsg(StrV(message)) >>]
            /\ pc' = "chat"
       ELSE /\ frame' = [NoFrame EXCEPT
                            !.message = message, !.max_tool_iterations = n,
                            !.messages = _build_messages_with_history(history, message),
                            !.tool_schemas = get_schemas(Registry, StrList(available_tools),
                                                         NoFaults),
                            !.error = IF n = 0 THEN "UnboundLocalError" ELSE "None"]
            /\ pc' = IF n = 0 THEN "raised" ELSE "requesting"
    /\ UNCHANGED << regVars, execVars, scan, agentVars, llm_calls, callerVars >>

\* chat(): the single LLM request without tools, then _update_history
PlainChat(resp) ==
    /\ pc = "chat"
    /\ llm_calls' = Append(llm_calls, [messages |-> frame.messages, tools |-> NoneV,
                                       response |-> resp])
    /\ history' = _update_history(history, frame.message, resp)
    /\ frame' = [frame EXCEPT !.response = resp, !.returned = resp]
    /\ pc' = "done"
    /\ UNCHANGED << regVars, execVars, scan, enable_tools, available_tools,
                    tool_executor, tool_history, callerVars >>

\* the LLM request of a loop that records every round-trip in the history
ChatCompletion_SavesEveryRound(resp) ==
    /\ pc = "requesting"
    /\ llm_calls' = Append(llm_calls, [messages |-> frame.messages,
                                       tools |-> ListV(frame.tool_schemas),
                                       response |-> resp])
    /\ IF resp.tool_calls = <<>>
       THEN /\ history' = _update_history(history, frame.message, resp)
            /\ frame' = [frame EXCEPT !.response = resp, !.returned = resp]
            /\ pc' = "done"
       ELSE /\ history' = _update_history(history, frame.message, resp)
            /\ frame' = [frame EXCEPT
                            !.response = resp,
                            !.messages = Append(@, AssistantToolMsg(resp)),
                            !.call_idx = 1]
            /\ pc' = "executing"
    /\ UNCHANGED << regVars, execVars, scan, enable_tools, available_tools,
                    tool_executor, tool_history, callerVars >>

\* agent.py lines 355-392: one LLM request of the loop and the decision on
\* its response
ChatCompletion(resp) ==
    /\ pc = "requesting"
    /\ llm_calls' = Append(llm_calls, [messages |-> frame.messages,
                                       tools |-> ListV(frame.tool_schemas),
                                       response |-> resp])
    /\ IF resp.tool_calls = <<>>
       THEN /\ history' = _update_history(history, frame.message, resp)
            /\ frame' = [frame EXCEPT !.response = resp, !.returned = resp]
            /\ pc' = "done"
       ELSE /\ history' = history
            /\ frame' = [frame EXCEPT
                            !.response = resp,
                            !.messages = Append(@, AssistantToolMsg(resp)),
                            !.call_idx = 1]
            /\ pc' = "executing"
    /\ UNCHANGED << regVars, execVars, scan, enable_tools, available_tools,
                    tool_executor, tool_history, callerVars >>

\* the handling of a tool call that records the exchange in the history when
\* the loop returns at the cap
ExecuteToolCall_SavesAtCap(beh) ==
    /\ pc = "executing"
    /\ LET tool_call == frame.response.tool_calls[frame.call_idx]
           is_last == frame.call_idx = Len(frame.response.tool_calls)
           capped == frame.iteration + 1 = frame.max_tool_iterations
       IN \E parsed \in {JsonLoads(tool_call.function.arguments)} :
            IF parsed.exc # "None"
            THEN /\ pc' = "raised"
                 /\ frame' = [frame EXCEPT !.error = parsed.exc]
                 /\ UNCHANGED << stats, tool_history, history >>
            ELSE \E ran \in {RunToolCall(Registry, Executor, Agent, tool_call,
                                         parsed.value, beh, Elapsed)} :
                 /\ stats' = ran.stats
                 /\ tool_history' = ran.tool_history
                 /\ history' = IF is_last /\ capped
                               THEN _update_history(history, frame.message, frame.response)
                               ELSE history
                 /\ frame' = [frame EXCEPT
                                 !.messages = Append(@, ran.message),
                                 !.call_idx = IF is_last THEN 0 ELSE @ + 1,
                                 !.iteration = IF is_last THEN @ + 1 ELSE @,
                                 !.returned = IF is_last /\ capped
                                              THEN frame.response ELSE @]
                 /\ pc' = IF ~is_last THEN "executing"
                          ELSE IF capped THEN "done" ELSE "requesting"
    /\ UNCHANGED << regVars, safety_enabled, allow_warnings, safety_validator, last, scan,
                    enable_tools, available_tools, tool_executor, llm_calls, callerVars >>

\* agent.py lines 395-434: one tool call of the response: json.loads, then
\* use_tool and the tool message; after the last call the next iteration, or
\* the return of the last response when the cap is reached
ExecuteToolCall(beh) ==
    /\ pc = "executing"
    /\ LET tool_call == frame.response.tool_calls[frame.call_idx]
           is_last == frame.call_idx = Len(frame.response.tool_calls)
           capped == frame.iteration + 1 = frame.max_tool_iterations
       IN \E parsed \in {JsonLoads(tool_call.function.arguments)} :
            IF parsed.exc # "None"
            THEN /\ pc' = "raised"
                 /\ frame' = [frame EXCEPT !.error = parsed.exc]
                 /\ UNCHANGED << stats, tool_history >>
            ELSE \E ran \in {RunToolCall(Registry, Executor, Agent, tool_call,
                                         parsed.value, beh, Elapsed)} :
                 /\ stats' = ran.stats
                 /\ tool_history' = ran.tool_history
                 /\ frame' = [frame EXCEPT
                                 !.messages = Append(@, ran.message),
                                 !.call_idx = IF is_last THEN 0 ELSE @ + 1,
                                 !.iteration = IF is_last THEN @ + 1 ELSE @,
                                 !.returned = IF is_last /\ capped
                                              THEN frame.response ELSE @]
                 /\ pc' = IF ~is_last THEN "executing"
                          ELSE IF capped THEN "done" ELSE "requesting"
    /\ UNCHANGED << regVars, safety_enabled, allow_warnings, safety_validator, last, scan,
                    enable_tools, available_tools, tool_executor, history, llm_calls,
                    callerVars >>

NextLoop ==
    \/ \E n \in 0..MaxIterations : StartChat("run it", n)
    \/ \E resp \in Responses : PlainChat(resp)
    \/ \E resp \in Responses : ChatCompletion(resp)
    \/ \E beh \in LoopBehaviours : ExecuteToolCall(beh)

SpecLoop == InitLoop /\ [][NextLoop]_vars

(***************************************************************************)
(* Properties of the tool-calling loop                                     *)
(***************************************************************************)
\* the call runs the loop and not the fallback to chat()
InLoop == enable_tools /\ available_tools # <<>>

Ended == pc \in {"done", "raised"}

RoundTrips == Len(llm_calls)

Requests(i) == llm_calls[i].response.tool_calls # <<>>

\* msgs are the tool messages of the calls of resp, in request order, each
\* with a payload of the keys success, output and error
AnswersCalls(resp, msgs) ==
    /\ Len(msgs) = Len(resp.tool_calls)
    /\ \A j \in 1..Len(msgs) :
          /\ msgs[j].role = "tool"
          /\ msgs[j].tool_call_id = resp.tool_calls[j].id
          /\ msgs[j].content.t = "json"
          /\ DOMAIN msgs[j].content.v = {"success", "output", "error"}

\* after is before, the assistant message of resp, and the answers to its calls
ExtendedBy(before, resp, after) ==
    /\ Len(after) = Len(before) + 1 + Len(resp.tool_calls)
    /\ SubSeq(after, 1, Len(before)) = before
    /\ after[Len(before) + 1].role = "assistant"
    /\ AnswersCalls(resp, SubSeq(after, Len(before) + 2, Len(after)))

\* C1: with a cap N >= 1 and an LLM that requests a tool call in every
\* response, a call of chat_with_tools ends by returning, after exactly N
\* round-trips, the N-th response.
C1_CapReturnsNth ==
    (InLoop /\ Ended /\ frame.max_tool_iterations >= 1
        /\ \A i \in 1..RoundTrips : Requests(i))
    => /\ pc = "done"
       /\ RoundTrips = frame.max_tool_iterations
       /\ frame.returned = llm_calls[RoundTrips].response

\* C2: with a cap N >= 1 the round-trips never exceed N, and a call of
\* chat_with_tools ends only at the first response without tool calls, which
\* it returns, or at the cap.
C2_StopsAtFirstFinal ==
    (InLoop /\ frame.max_tool_iterations >= 1)
    => /\ RoundTrips <= frame.max_tool_iterations
       /\ Ended =>
            \/ /\ pc = "done"
               /\ RoundTrips >= 1
               /\ ~Requests(RoundTrips)
               /\ \A i \in 1..(RoundTrips - 1) : Requests(i)
               /\ frame.returned = llm_calls[RoundTrips].response
            \/ /\ RoundTrips = frame.max_tool_iterations
               /\ \A i \in 1..RoundTrips : Requests(i)

\* C3: the message list of every LLM request after the first, and the running
\* list whenever the next request is due, is the list of the previous request
\* extended by the assistant message and by exactly one tool message per
\* requested call, with the ids of the calls in request order and a payload of
\* the keys success, output and error.
C3_ToolMessagesInOrder ==
    InLoop =>
        /\ \A i \in 2..RoundTrips :
              ExtendedBy(llm_calls[i - 1].messages, llm_calls[i - 1].response,
                         llm_calls[i].messages)
        /\ (pc = "requesting" /\ RoundTrips >= 1) =>
              ExtendedBy(llm_calls[RoundTrips].messages, llm_calls[RoundTrips].response,
                         frame.messages)

\* two round-trips, the first with two calls that both fail
C3_Witness ==
    /\ InLoop
    /\ RoundTrips = 2
    /\ Len(llm_calls[1].response.tool_calls) = 2
    /\ llm_calls[1].response.tool_calls[2].function.name = "ghost"
    /\ llm_calls[2].messages[Len(llm_calls[2].messages)].content.v.success = FALSE

\* C4: handling a requested call never aborts the loop: it appends the tool
\* message of the call's id, and that message reports success = false with an
\* error text when the argument payload does not parse or cannot be passed to
\* the tool.
C4_FaultContained ==
    [][pc = "executing" =>
        LET tool_call == frame.response.tool_calls[frame.call_idx]
            parsed == JsonLoads(tool_call.function.arguments)
            answer == frame'.messages[Len(frame'.messages)]
        IN /\ pc' # "raised"
           /\ Len(frame'.messages) = Len(frame.messages) + 1
           /\ answer.role = "tool"
           /\ answer.tool_call_id = tool_call.id
           /\ (parsed.exc # "None" \/ parsed.value.t # "dict")
                => /\ answer.content.v.success = FALSE
                   /\ answer.content.v.error.t = "str"]_vars

\* C20: the step in which chat_with_tools ends on a response without tool
\* calls appends one entry to the history, the user message with the content
\* of that response; no other step of the loop changes the history.
C20_HistoryOnlyFinal ==
    [][InLoop =>
        IF pc = "requesting" /\ pc' = "done"
        THEN /\ frame'.returned.tool_calls = <<>>
             /\ history' = Append(history,
                                  << Entry("user", StrV(frame.message)),
                                     Entry("assistant", frame'.returned.content) >>)
        ELSE history' = history]_vars

\* a call that ended on its second response, after one round of tool calls
C20_Witness ==
    /\ InLoop
    /\ pc = "done"
    /\ RoundTrips = 2
    /\ Requests(1)
    /\ ~Requests(2)
    /\ history = << << Entry("user", StrV("run it")),
                       Entry("assistant", StrV("final answer")) >> >>

\* msgs starts with the messages of before, unchanged and in place
Extends(msgs, before) ==
    /\ Len(msgs) >= Len(before)
    /\ SubSeq(msgs, 1, Len(before)) = before

\* the assistant message m carries the tool calls of resp
Carries(m, resp) ==
    /\ m.role = "assistant"
    /\ Len(m.tool_calls) = Len(resp.tool_calls)
    /\ \A j \in 1..Len(resp.tool_calls) :
          /\ m.tool_calls[j].id = resp.tool_calls[j].id
          /\ m.tool_calls[j].function.name = resp.tool_calls[j].function.name
          /\ m.tool_calls[j].function.arguments = resp.tool_calls[j].function.arguments

\* C32: the running message list of chat_with_tools only grows at its end:
\* every step of the loop keeps the messages it had, in place; the list of
\* each request is the running list; and the list of request k+1 is the list
\* of request k, then one assistant message with the tool calls of response
\* k, then one tool message per call of response k and nothing else.
C32_AppendOnly ==
    [][(InLoop /\ pc # "idle") =>
          /\ Extends(frame'.messages, frame.messages)
          /\ llm_calls' # llm_calls =>
                /\ llm_calls'[Len(llm_calls')].messages = frame.messages
                /\ RoundTrips >= 1 =>
                      LET prev == llm_calls[RoundTrips]
                          n == Len(prev.messages)
                      IN /\ Extends(frame.messages, prev.messages)
                         /\ Len(frame.messages) = n + 1 + Len(prev.response.tool_calls)
                         /\ Carries(frame.messages[n + 1], prev.response)
                         /\ \A j \in 1..Len(prev.response.tool_calls) :
                               /\ frame.messages[n + 1 + j].role = "tool"
                               /\ frame.messages[n + 1 + j].tool_call_id
                                    = prev.response.tool_calls[j].id]_vars

\* a second request after a response with two calls, on top of an earlier turn
C32_Witness ==
    /\ InLoop
    /\ history # <<>>
    /\ RoundTrips = 2
    /\ Len(llm_calls[1].response.tool_calls) = 2
    /\ Len(llm_calls[2].messages) = Len(llm_calls[1].messages) + 3
    /\ llm_calls[2].messages[Len(llm_calls[1].messages) + 1].tool_calls # <<>>

\* the call of chat_with_tools returned at the cap: its last response still
\* requested tool calls
CapStop == InLoop /\ pc = "done" /\ RoundTrips >= 1 /\ Requests(RoundTrips)

\* the tool calls of all responses, as pairs of round-trip and position
AllCalls ==
    {kj \in (1..RoundTrips) \X (1..2) : kj[2] <= Len(llm_calls[kj[1]].response.tool_calls)}

\* Python can bind the decoded arguments of the call as **tool_params next to
\* the positional tool_name
Bindable(tool_call) ==
    LET parsed == JsonLoads(tool_call.function.arguments)
    IN /\ parsed.exc = "None"
       /\ parsed.value.t = "dict"
       /\ ~HasKey(parsed.value.v, "tool_name")

\* C33: when chat_with_tools returns at the iteration cap, every tool call of
\* the last response has been run as well: the running list ends with one
\* tool message per call of the last response, which no request has carried;
\* there are as many tool messages as tool calls over all N responses; and
\* every one of those calls whose arguments can be passed to use_tool went
\* through the executor and is in tool_history.
C33_LastCallsExecuted ==
    CapStop =>
        /\ RoundTrips = frame.max_tool_iterations
        /\ frame.returned = llm_calls[RoundTrips].response
        /\ ExtendedBy(llm_calls[RoundTrips].messages, llm_calls[RoundTrips].response,
                      frame.messages)
        /\ Cardinality({i \in 1..Len(frame.messages) : frame.messages[i].role = "tool"})
             = Cardinality(AllCalls)
        /\ stats.total_executions
             = Cardinality({kj \in AllCalls :
                              Bindable(llm_calls[kj[1]].response.tool_calls[kj[2]])})
        /\ Len(tool_history) = stats.total_executions

\* two round-trips at a cap of two, three tool calls, all through the executor
C33_Witness ==
    /\ CapStop
    /\ frame.max_tool_iterations = 2
    /\ Cardinality(AllCalls) = 3
    /\ Len(llm_calls[2].response.tool_calls) = 2
    /\ stats.total_executions = 3

\* C34: when chat_with_tools returns at the iteration cap the history is
\* the one the call started with: the message list of the first request is
\* still what _build_messages_with_history makes of the history and the user
\* message, and no entry of the history holds the user message of the call or
\* the content of one of its responses.
C34_CapKeepsHistory ==
    CapStop =>
        /\ llm_calls[1].messages = _build_messages_with_history(history, frame.message)
        /\ Len(history) * 2 + 1 = Len(llm_calls[1].messages)
        /\ \A i \in 1..Len(history) :
              /\ DictGet(history[i], "user") # StrV(frame.message)
              /\ \A k \in 1..RoundTrips :
                    DictGet(history[i], "assistant") # llm_calls[k].response.content

\* a return at a cap of two on top of one earlier turn, which is still the
\* whole history
C34_Witness ==
    /\ CapStop
    /\ RoundTrips = 2
    /\ Len(history) = 1
    /\ DictGet(history[1], "user") = StrV("earlier")
    /\ frame.returned.tool_calls # <<>>

\* C35: reaching the iteration cap is no error: for every cap, zero
\* included, a call of chat_with_tools on an agent with tools that has made
\* as many requests as the cap allows, each answered with tool calls whose
\* arguments parse, ends by returning the last response.
C35_CapIsNoError ==
    (InLoop /\ Ended /\ RoundTrips = frame.max_tool_iterations
        /\ (\A i \in 1..RoundTrips : Requests(i))
        /\ frame.error # "JSONDecodeError")
    => /\ pc = "done"
       /\ RoundTrips >= 1 => frame.returned = llm_calls[RoundTrips].response

AgentCalls ==
    { Call("probe", Params1("command", StrV("echo hi")), Behaviour("ok", "ok", "returns_ok")),
      Call("probe", Params1("command", StrV("echo hi")), Behaviour("ok", "ok", "raises")),
      Call("probe", Params1("command", StrV("echo hi")), Behaviour("ok", "raises", "returns_ok")),
      Call("probe", Params1("command", StrV("rm -rf /tmp/x")),
           Behaviour("ok", "ok", "returns_ok")),
      Call("probe", Params1("command", IntV(5)), Behaviour("ok", "ok", "returns_ok")),
      Call("legacy", Params1("command", StrV("echo hi")), Behaviour("ok", "ok", "returns_ok")),
      Call("ghost", <<>>, Behaviour("ok", "ok", "returns_ok")) }

\* one call of BaseAgent.use_tool(tool_name, **params)
UseTool(tool_name, params, beh) ==
    /\ stats.total_executions < MaxExecs
    /\ \E used \in {use_tool(Registry, Executor, Agent, tool_name, DictV(params), beh,
                             Elapsed)} :
          /\ stats' = used.stats
          /\ tool_history' = used.tool_history
          /\ scan' = [op |-> "use_tool",
                      arg |-> [tool_name |-> tool_name, params |-> params, beh |-> beh],
                      allow_warnings |-> allow_warnings,
                      ret |-> [exc |-> used.exc, result |-> used.result]]
    /\ UNCHANGED << regVars, safety_enabled, allow_warnings, safety_validator, last,
                    enable_tools, available_tools, tool_executor, history, loopVars,
                    callerVars >>

NextAgent ==
    \E call \in AgentCalls : UseTool(call.tool_name, call.parameters, call.beh)

SpecAgent == InitLoop /\ [][NextAgent]_vars

\* C30: use_tool on an agent without tools raises the RuntimeError "Tools not
\* enabled for this agent" and leaves tool_history and the executor's
\* counters as they were; on an agent with tools it returns the ToolResult
\* of one execute call of the agent's executor and appends one record of the
\* call, with that result, to tool_history, whatever the outcome.
C30_UseToolTracked ==
    [][ scan'.op = "use_tool"
          => IF ~enable_tools \/ ~tool_executor
             THEN /\ scan'.ret.exc = "Tools not enabled for this agent"
                  /\ tool_history' = tool_history
                  /\ stats' = stats
             ELSE /\ scan'.ret.exc = "None"
                  /\ stats'.total_executions = stats.total_executions + 1
                  /\ Len(tool_history') = Len(tool_history) + 1
                  /\ SubSeq(tool_history', 1, Len(tool_history)) = tool_history
                  /\ tool_history'[Len(tool_history')].tool = scan'.arg.tool_name
                  /\ tool_history'[Len(tool_history')].result = scan'.ret.result ]_vars

C30_Witness ==
    /\ scan.op = "use_tool"
    /\ enable_tools
    /\ Len(tool_history) = 2
    /\ tool_history[1].result.success
    /\ ~tool_history[2].result.success
    /\ tool_history[2].tool = "ghost"
    /\ scan.ret.result = tool_history[2].result

(***************************************************************************)
(* Parameter specification: validate, validate_parameters and the schema   *)
(* of declared tools, and execute calls on tools with defaults             *)
(***************************************************************************)
\* the tool definitions BaseTool.__init__ accepts
ValidClasses == {cls \in DOMAIN ToolClasses : _validate_definition(ToolClasses[cls]) = "None"}

\* The parameter descriptors: every declared one, and descriptors with an
\* enum, with typed items and with a nested property.
ParamDefs ==
    UNION {{ToolClasses[cls].parameters[i] : i \in 1..Len(ToolClasses[cls].parameters)} :
             cls \in ValidClasses}
        \cup { ToolParameter("mode", "string", TRUE, NoneV, << StrV("fast"), StrV("slow") >>,
                             "None", <<>>),
               ToolParameter("size", "number", TRUE, NoneV, <<>>, "None", <<>>),
               ToolParameter("n", "integer", TRUE, NoneV, <<>>, "None", <<>>),
               ToolParameter("on", "boolean", FALSE, NoneV, <<>>, "None", <<>>),
               ToolParameter("ids", "array", TRUE, NoneV, <<>>, "integer", <<>>),
               ToolParameter("cfg", "object", FALSE, NoneV, <<>>, "None",
                             << ToolParameter("depth", "integer", TRUE, NoneV, <<>>,
                                              "None", <<>>) >>) }

ParamValues ==
    { NoneV, StrV("fast"), StrV("x"), IntV(1), BoolV(TRUE), BoolV(FALSE), FloatV("1.5"),
      ListV(<<>>), ListV(<< IntV(1), BoolV(TRUE) >>), ListV(<< BoolV(FALSE) >>),
      ListV(<< FloatV("1.5"), IntV(2) >>), ListV(<< IntV(1), IntV(2) >>),
      DictV(<<>>), DictV(Params1("depth", IntV(2))), DictV(Params1("depth", BoolV(TRUE))) }

\* The parameter maps handed to validate_parameters and to execute.
DeclaredMaps ==
    { <<>>,
      Params1("target", StrV("host")),
      Params1("command", StrV("echo hi")),
      Params2("target", StrV("host"), "command", StrV("echo hi")),
      Params2("target", StrV("host"), "command", NoneV),
      Params2("target", StrV("host"), "command", IntV(5)),
      Params2("target", StrV("host"), "count", BoolV(TRUE)),
      Params2("target", StrV("host"), "count", IntV(3)),
      Params2("target", StrV("host"), "bogus", IntV(3)),
      Params1("level", BoolV(TRUE)),
      Params1("level", FloatV("1.5")),
      Params1("flags", ListV(<< IntV(1), BoolV(TRUE) >>)),
      Params1("ratios", ListV(<< FloatV("1.5"), IntV(2) >>)),
      Params1("count", IntV(7)),
      Params1("timeout", IntV(5)) }

\* The registry after ProbeV2Tool and PlainTool were registered, and an
\* executor without a safety validator.
InitParams ==
    /\ _tools = << Entry("probe", "ProbeV2Tool"), Entry("plain", "PlainTool") >>
    /\ _metadata = << Entry("probe", Metadata("ProbeV2Tool", TRUE)),
                      Entry("plain", Metadata("PlainTool", TRUE)) >>
    /\ instances = <<>>
    /\ safety_enabled = FALSE
    /\ allow_warnings = TRUE
    /\ safety_validator = FALSE
    /\ stats = NewStats
    /\ last = NoCall
    /\ scan = NoScan
    /\ InitNoAgent
    /\ InitNoCallers

\* one call of ToolParameter.validate(value)
ValidateValue(param, value) ==
    /\ scan' = [op |-> "validate", arg |-> [param |-> param, value |-> value],
                allow_warnings |-> TRUE, ret |-> validate(param, value)]
    /\ UNCHANGED << regVars, execVars, agentVars, loopVars, callerVars >>

\* one call of BaseTool.validate_parameters(params) on an instance of cls
ToolValidateParameters(cls, params) ==
    /\ scan' = [op |-> "tool.validate_parameters", arg |-> [tool |-> cls, params |-> params],
                allow_warnings |-> TRUE,
                ret |-> tool_validate_parameters(ToolClasses[cls], params)]
    /\ UNCHANGED << regVars, execVars, agentVars, loopVars, callerVars >>

\* one call of BaseTool.to_openai_schema() on an instance of cls
ToOpenaiSchema(cls) ==
    /\ scan' = [op |-> "to_openai_schema", arg |-> [tool |-> cls],
                allow_warnings |-> TRUE, ret |-> to_openai_schema(ToolClasses[cls])]
    /\ UNCHANGED << regVars, execVars, agentVars, loopVars, callerVars >>

NextParams ==
    \/ \E param \in ParamDefs, value \in ParamValues : ValidateValue(param, value)
    \/ \E cls \in ValidClasses : ToOpenaiSchema(cls)

SpecParams == InitParams /\ [][NextParams]_vars

\* The execute calls on the tools with defaults: maps with and without the
\* parameters that have one, on a tool that works and on one that raises.
DefaultCalls ==
    {Call("probe", params, Behaviour("ok", "ok", exec)) :
        params \in { Params1("target", StrV("host")),
                     Params1("command", StrV("echo hi")),
                     Params2("target", StrV("host"), "command", StrV("echo hi")),
                     Params2("target", StrV("host"), "command", NoneV) },
        exec \in {"returns_ok", "raises"}}
      \cup {Call("plain", params, Behaviour("ok", "ok", "returns_ok")) :
              params \in {<<>>, Params1("count", IntV(7)), Params1("level", BoolV(TRUE))}}

NextDefaults ==
    \/ \E cls \in ValidClasses, params \in DeclaredMaps : ToolValidateParameters(cls, params)
    \/ \E call \in DefaultCalls :
          Execute(call.tool_name, call.parameters, call.beh, Elapsed)

SpecDefaults == InitParams /\ [][NextDefaults]_vars

(***************************************************************************)
(* Properties of the parameter specification                               *)
(***************************************************************************)
RequiredSet(parameters) ==
    {parameters[i].name : i \in {j \in 1..Len(parameters) : parameters[j].required}}

\* C21: the schema a tool exports lists under "required" exactly the names of
\* its parameters declared with required=true, each once, and has no
\* "required" key when no parameter is required.
C21_RequiredExact ==
    scan.op = "to_openai_schema"
        => LET declared == RequiredSet(ToolClasses[scan.arg.tool].parameters)
               exported == scan.ret.function.parameters
           IN IF declared = {}
              THEN ~HasKey(exported, "required")
              ELSE /\ HasKey(exported, "required")
                   /\ LET required == DictGet(exported, "required")
                      IN /\ {required[i] : i \in 1..Len(required)} = declared
                         /\ Len(required) = Cardinality(declared)

C21_Witness ==
    /\ scan.op = "to_openai_schema"
    /\ scan.arg.tool = "ProbeV2Tool"
    /\ DictGet(scan.ret.function.parameters, "required") = << "target", "command" >>
    /\ HasKey(DictGet(scan.ret.function.parameters, "properties"), "count")

\* C22: validate on the value None fails with an error that names the
\* parameter when the parameter is required, and succeeds without an error
\* when it is optional.
C22_AbsentValue ==
    (scan.op = "validate" /\ scan.arg.value = NoneV)
        => IF scan.arg.param.required
           THEN ~scan.ret.ok /\ Contains(scan.ret.error, scan.arg.param.name)
           ELSE scan.ret.ok /\ scan.ret.error = "None"

C22_Witness ==
    /\ scan.op = "validate"
    /\ scan.arg.value = NoneV
    /\ scan.arg.param.required
    /\ scan.arg.param.name = "ids"
    /\ scan.ret = Invalid("Parameter 'ids' is required")

Numeric == {"integer", "number"}

\* C23: validate rejects a boolean for an integer or a number parameter, and
\* rejects a list that holds a boolean for an array parameter whose items are
\* integers or numbers.
C23_BoolIsNoNumber ==
    scan.op = "validate"
        => LET param == scan.arg.param
               value == scan.arg.value
           IN /\ (param.param_type \in Numeric /\ value.t = "bool") => ~scan.ret.ok
              /\ ( /\ param.param_type = "array"
                   /\ param.items \in Numeric
                   /\ value.t = "list"
                   /\ \E i \in 1..Len(value.v) : value.v[i].t = "bool" )
                     => ~scan.ret.ok

C23_Witness ==
    /\ scan.op = "validate"
    /\ scan.arg.param.name = "ratios"
    /\ scan.arg.value = ListV(<< IntV(1), BoolV(TRUE) >>)
    /\ scan.ret = Invalid("Array item 1 in 'ratios' must be of type number")

\* the value validate_parameters checks for the declared parameter: the given
\* one, or the declared default when none is given
Resolved(param_def, params) ==
    IF DictGet(params, param_def.name) # NoneV THEN DictGet(params, param_def.name)
    ELSE param_def.default

Defaulted(parameters, params) ==
    {i \in 1..Len(parameters) :
        DictGet(params, parameters[i].name) = NoneV /\ parameters[i].default # NoneV}

\* C24: validate_parameters accepts a map exactly when it names declared
\* parameters only and every declared parameter validates on the given value
\* or, when absent, on its declared default; the accepted map then holds the
\* default of every such parameter, and so does the map the tool's execute
\* receives. An absent required parameter without a default is refused.
C24_DefaultBeforeValidation ==
    /\ scan.op = "tool.validate_parameters"
        => LET declared == ToolClasses[scan.arg.tool].parameters
               params == scan.arg.params
           IN /\ scan.ret.ok
                    <=> /\ DictKeys(params) \subseteq ParamNames(declared)
                        /\ \A i \in 1..Len(declared) :
                              validate(declared[i], Resolved(declared[i], params)).ok
              /\ scan.ret.ok
                    => \A i \in Defaulted(declared, params) :
                          DictGet(scan.ret.params, declared[i].name) = declared[i].default
              /\ (\E i \in 1..Len(declared) :
                     /\ declared[i].required
                     /\ declared[i].default = NoneV
                     /\ DictGet(params, declared[i].name) = NoneV)
                    => ~scan.ret.ok
    /\ (last.called /\ last.invoked = 1)
        => LET declared == ToolClasses[DictGet(_tools, last.tool_name)].parameters
           IN \A i \in Defaulted(declared, last.parameters) :
                 DictGet(last.received, declared[i].name) = declared[i].default

C24_Witness ==
    /\ last.called
    /\ last.tool_name = "probe"
    /\ last.parameters = Params1("target", StrV("host"))
    /\ last.invoked = 1
    /\ last.result.success
    /\ last.received = Params2("target", StrV("host"), "command", StrV("ls"))
    /\ scan.op = "tool.validate_parameters"
    /\ scan.arg = [tool |-> "ProbeV2Tool", params |-> Params1("target", StrV("host"))]
    /\ scan.ret.ok

(***************************************************************************)
(* Registration and instantiation (core/tools/registry.py)                 *)
(***************************************************************************)
\* tags or []
TagsOrEmpty(tags) == IF tags = NoneV THEN <<>> ELSE tags.v

\* the registration of a name that keeps the entry the name already has
Store_KeepsFirst(reg, tool_name, tool_class, category, tags, enabled) ==
    IF HasKey(reg.tools, tool_name) THEN reg
    ELSE [tools |-> DictSet(reg.tools, tool_name, tool_class),
          metadata |-> DictSet(reg.metadata, tool_name,
                               [tool_class |-> tool_class, category |-> category,
                                tags |-> TagsOrEmpty(tags), enabled |-> enabled])]

\* registry.py lines 54-81: the class and its metadata are stored under the
\* name, over the entry the name may already have
Store(reg, tool_name, tool_class, category, tags, enabled) ==
    [tools |-> DictSet(reg.tools, tool_name, tool_class),
     metadata |-> DictSet(reg.metadata, tool_name,
                          [tool_class |-> tool_class, category |-> category,
                           tags |-> TagsOrEmpty(tags), enabled |-> enabled])]

\* register taking the name from the class without constructing an instance
register_Unchecked(reg, tool_class, category, tags, enabled) ==
    [exc |-> "None", msg |-> "None",
     warned |-> HasKey(reg.tools, ToolClasses[tool_class].name),
     reg |-> Store(reg, ToolClasses[tool_class].name, tool_class, category, tags, enabled)]

\* ToolRegistry.register(tool_class, category, tags, enabled): the exception
\* raised ("None" when it returns), whether the warning about a name already
\* registered was logged, and the registry afterwards
register(reg, tool_class, category, tags, enabled) ==
    LET instance == Construct(tool_class, "ok")
    IN IF instance.exc # "None"
       THEN [exc |-> instance.exc, msg |-> instance.msg, warned |-> FALSE, reg |-> reg]
       ELSE [exc |-> "None", msg |-> "None",
             warned |-> HasKey(reg.tools, ToolClasses[instance.tool].name),
             reg |-> Store(reg, ToolClasses[instance.tool].name, tool_class, category,
                           tags, enabled)]

\* a registry that hands out the object it constructed last
NewInstance_Reused(objs) ==
    IF objs = <<>> THEN [objects |-> << [executes |-> 0] >>, id |-> 1]
    ELSE [objects |-> objs, id |-> Len(objs)]

\* registry.py line 117, tool_class(): a new object, known by its position
\* among the objects constructed so far, that has served no execute call
NewInstance(objs) ==
    [objects |-> Append(objs, [executes |-> 0]), id |-> Len(objs) + 1]

\* the objects after create ended with c, and the one it returned (0 for none)
Instantiated(objs, c) ==
    IF c.exc = "None" THEN NewInstance(objs) ELSE [objects |-> objs, id |-> 0]

\* the objects after the creates of get_schemas
RECURSIVE InstantiatedAll(_, _, _, _)
InstantiatedAll(objs, reg, names, faults) ==
    IF names = <<>> THEN objs
    ELSE InstantiatedAll(
            Instantiated(objs, create(reg.tools, reg.metadata, Head(names),
                                      IF Head(names) \in faults.ctor THEN "boom" ELSE "ok")
                        ).objects,
            reg, Tail(names), faults)

(***************************************************************************)
(* Registry specification: register, create, get_schemas and execute       *)
(***************************************************************************)
MaxInstances == 2

\* The register calls: ProbeTool and ProbeV2Tool share the name "probe".
Registrations ==
    { [tool_class |-> "ProbeTool", category |-> "shell",
       tags |-> StrList(<< "safe" >>), enabled |-> TRUE],
      [tool_class |-> "ProbeV2Tool", category |-> "net", tags |-> NoneV, enabled |-> TRUE],
      [tool_class |-> "ProbeV2Tool", category |-> "net", tags |-> NoneV, enabled |-> FALSE],
      [tool_class |-> "PlainTool", category |-> "None", tags |-> NoneV, enabled |-> TRUE],
      [tool_class |-> "NamelessTool", category |-> "None", tags |-> NoneV, enabled |-> TRUE],
      [tool_class |-> "UndescribedTool", category |-> "x", tags |-> NoneV, enabled |-> TRUE],
      [tool_class |-> "TwinTool", category |-> "None", tags |-> NoneV, enabled |-> FALSE] }

RegistryNames == {"probe", "plain", "legacy", "ghost"}

\* the lists handed to get_schemas, None among them
NameLists ==
    { NoneV, StrList(<< "probe", "plain" >>), StrList(<< "plain", "probe" >>),
      StrList(<< "legacy", "plain" >>), StrList(<< "ghost", "probe" >>),
      StrList(<< "plain", "plain" >>) }

FaultSets ==
    { NoFaults, [ctor |-> {"probe"}, schema |-> {}], [ctor |-> {}, schema |-> {"plain"}] }

\* The registry after LegacyTool was registered disabled, and a fresh executor.
InitRegistrySpec ==
    /\ _tools = << Entry("legacy", "LegacyTool") >>
    /\ _metadata = << Entry("legacy", Metadata("LegacyTool", FALSE)) >>
    /\ instances = <<>>
    /\ safety_enabled = FALSE
    /\ allow_warnings = TRUE
    /\ safety_validator = FALSE
    /\ stats = NewStats
    /\ last = NoCall
    /\ scan = NoScan
    /\ InitNoAgent
    /\ InitNoCallers

\* one call of ToolRegistry.register
Register(r) ==
    \E out \in {register(Registry, r.tool_class, r.category, r.tags, r.enabled)} :
        /\ _tools' = out.reg.tools
        /\ _metadata' = out.reg.metadata
        /\ scan' = [op |-> "register", arg |-> r, allow_warnings |-> TRUE,
                    ret |-> [exc |-> out.exc, msg |-> out.msg, warned |-> out.warned]]
        /\ UNCHANGED << instances, execVars, agentVars, loopVars, callerVars >>

\* one call of ToolRegistry.create
Create(tool_name, ctor) ==
    /\ Len(instances) < MaxInstances
    /\ \E c \in {create(_tools, _metadata, tool_name, ctor)} :
         \E new \in {Instantiated(instances, c)} :
            /\ instances' = new.objects
            /\ scan' = [op |-> "create", arg |-> [tool_name |-> tool_name, ctor |-> ctor],
                        allow_warnings |-> TRUE,
                        ret |-> [exc |-> c.exc, msg |-> c.msg, tool |-> c.tool,
                                 instance |-> new.id]]
    /\ UNCHANGED << _tools, _metadata, execVars, agentVars, loopVars, callerVars >>

\* one call of ToolRegistry.get_schemas
GetSchemas(tool_names, faults) ==
    /\ Len(instances) + Len(RequestedNames(Registry, tool_names)) <= MaxInstances
    /\ instances' = InstantiatedAll(instances, Registry,
                                    RequestedNames(Registry, tool_names), faults)
    /\ scan' = [op |-> "get_schemas", arg |-> [tool_names |-> tool_names, faults |-> faults],
                allow_warnings |-> TRUE,
                ret |-> [schemas |-> get_schemas(Registry, tool_names, faults)]]
    /\ UNCHANGED << _tools, _metadata, execVars, agentVars, loopVars, callerVars >>

\* one call of ToolExecutor.execute, with the object _get_tool obtained from
\* create and the call of its execute method
ExecuteTool(tool_name, parameters, beh) ==
    /\ Len(instances) < MaxInstances
    /\ stats.total_executions < MaxExecs
    /\ \E out \in {execute(Registry, Executor, tool_name, parameters, beh, Elapsed)} :
         \E new \in {Instantiated(instances,
                                  create(_tools, _metadata, tool_name, beh.ctor))} :
            /\ stats' = out.stats
            /\ instances' = IF out.invoked = 1
                            THEN [new.objects EXCEPT ![new.id].executes = @ + 1]
                            ELSE new.objects
            /\ scan' = [op |-> "execute",
                        arg |-> [tool_name |-> tool_name, parameters |-> parameters,
                                 beh |-> beh],
                        allow_warnings |-> TRUE,
                        ret |-> [result |-> out.result, invoked |-> out.invoked,
                                 instance |-> new.id]]
    /\ UNCHANGED << _tools, _metadata, safety_enabled, allow_warnings, safety_validator,
                    last, agentVars, loopVars, callerVars >>

NextRegistry ==
    \/ \E r \in Registrations : Register(r)
    \/ \E tool_name \in RegistryNames, ctor \in {"ok", "boom"} : Create(tool_name, ctor)
    \/ \E tool_names \in NameLists, faults \in FaultSets : GetSchemas(tool_names, faults)
    \/ \E tool_name \in RegistryNames,
          parameters \in {Params1("command", StrV("echo hi")), Params1("count", IntV(2))},
          beh \in {Behaviour("ok", "ok", "returns_ok"), Behaviour("boom", "ok", "returns_ok"),
                   Behaviour("ok", "ok", "raises")} :
            ExecuteTool(tool_name, parameters, beh)

SpecRegistry == InitRegistrySpec /\ [][NextRegistry]_vars

(***************************************************************************)
(* Properties of the registry specification                                *)
(***************************************************************************)
\* the name under which a register call stores its class
NameOf(r) == ToolClasses[r.tool_class].name

Others(entries, name) == SelectSeq(entries, LAMBDA e : e.k # name)

\* C25: a register call of a valid class under a name that is already
\* registered returns without an exception; afterwards the name maps to the
\* class and to the category, tags and enabled flag of this call, create of
\* the name constructs this class, and every other entry is as before.
C25_Overwrite ==
    [][ ( /\ scan'.op = "register"
          /\ scan'.arg.tool_class \in ValidClasses
          /\ HasKey(_tools, NameOf(scan'.arg)) )
          => LET r == scan'.arg
             IN /\ scan'.ret.exc = "None"
                /\ scan'.ret.warned
                /\ DictGet(_tools', NameOf(r)) = r.tool_class
                /\ DictGet(_metadata', NameOf(r))
                      = [tool_class |-> r.tool_class, category |-> r.category,
                         tags |-> IF r.tags = NoneV THEN <<>>
                                  ELSE [i \in 1..Len(r.tags.v) |-> r.tags.v[i]],
                         enabled |-> r.enabled]
                /\ r.enabled
                      => create(_tools', _metadata', NameOf(r), "ok")
                            = [exc |-> "None", msg |-> "None", tool |-> r.tool_class]
                /\ KeySeq(_tools') = KeySeq(_tools)
                /\ KeySeq(_metadata') = KeySeq(_metadata)
                /\ Others(_tools', NameOf(r)) = Others(_tools, NameOf(r))
                /\ Others(_metadata', NameOf(r)) = Others(_metadata, NameOf(r)) ]_vars

C25_Witness ==
    /\ scan.op = "register"
    /\ scan.arg.tool_class = "ProbeV2Tool"
    /\ scan.arg.enabled
    /\ scan.ret.warned
    /\ scan.ret.exc = "None"
    /\ _tools = << Entry("legacy", "LegacyTool"), Entry("probe", "ProbeV2Tool") >>
    /\ DictGet(_metadata, "probe").category = "net"

\* whether get_schemas can export the schema of the name
Exportable(name, faults) ==
    /\ HasKey(_tools, name)
    /\ DictGet(_metadata, name).enabled
    /\ name \notin faults.ctor \cup faults.schema

\* C26: get_schemas returns, in the order requested, the schema of every
\* requested name that is registered, enabled and whose construction and
\* export succeed, and nothing for the other names; without a list the
\* names requested are the enabled tools of the registry, in its order.
C26_BestEffort ==
    scan.op = "get_schemas"
        => LET faults == scan.arg.faults
               asked == IF scan.arg.tool_names = NoneV
                        THEN SelectSeq(KeySeq(_tools),
                                       LAMBDA name : DictGet(_metadata, name).enabled)
                        ELSE [i \in 1..Len(scan.arg.tool_names.v) |->
                                 scan.arg.tool_names.v[i].v]
               kept == SelectSeq(asked, LAMBDA name : Exportable(name, faults))
               schemas == scan.ret.schemas
           IN /\ Len(schemas) = Len(kept)
              /\ \A i \in 1..Len(kept) :
                    /\ schemas[i].function.name = kept[i]
                    /\ schemas[i] = to_openai_schema(ToolClasses[DictGet(_tools, kept[i])])

C26_Witness ==
    /\ scan.op = "get_schemas"
    /\ scan.arg.tool_names = StrList(<< "probe", "plain" >>)
    /\ scan.arg.faults.ctor = {"probe"}
    /\ HasKey(_tools, "probe")
    /\ DictGet(_metadata, "probe").enabled
    /\ Len(scan.ret.schemas) = 1
    /\ scan.ret.schemas[1].function.name = "plain"

\* C27: a register call of a class with an empty name, an empty description
\* or a parameter name declared twice raises the ValueError of the
\* constructor and leaves _tools and _metadata as they were.
C27_InvalidDefinition ==
    [][ ( /\ scan'.op = "register"
          /\ LET tool == ToolClasses[scan'.arg.tool_class]
             IN \/ tool.name = ""
                \/ tool.description = ""
                \/ \E i, j \in 1..Len(tool.parameters) :
                      i # j /\ tool.parameters[i].name = tool.parameters[j].name )
          => /\ scan'.ret.exc = "ValueError"
             /\ _tools' = _tools
             /\ _metadata' = _metadata ]_vars

C27_Witness ==
    /\ scan.op = "register"
    /\ scan.arg.tool_class = "TwinTool"
    /\ scan.ret.exc = "ValueError"
    /\ scan.ret.msg = "Tool 'twin' has duplicate parameter names"
    /\ KeySeq(_tools) = << "legacy", "plain" >>

\* C28: the object a successful create returns, and the object an execute
\* call runs, is none of the objects constructed before the call; no object
\* serves more than one execute call; the registry holds classes.
C28_FreshInstances ==
    [][ /\ (scan'.op = "create" /\ scan'.ret.exc = "None")
              => /\ scan'.ret.instance \notin 1..Len(instances)
                 /\ scan'.ret.instance \in 1..Len(instances')
        /\ (scan'.op = "execute" /\ scan'.ret.invoked = 1)
              => /\ scan'.ret.instance \notin 1..Len(instances)
                 /\ scan'.ret.instance \in 1..Len(instances')
        /\ \A i \in 1..Len(instances') : instances'[i].executes <= 1
        /\ \A i \in 1..Len(_tools') : _tools'[i].val \in DOMAIN ToolClasses ]_vars

C28_Witness ==
    /\ scan.op = "execute"
    /\ scan.ret.invoked = 1
    /\ scan.ret.instance = 2
    /\ Len(instances) = 2
    /\ instances[1].executes = 1
    /\ instances[2].executes = 1
    /\ stats.total_executions = 2

(***************************************************************************)
(* Executor housekeeping (core/tools/executor.py): statistics and the      *)
(* safety switch                                                           *)
(***************************************************************************)
\* reset_stats that keeps the count of calls made
reset_stats_KeepsTotal(st) == [NewStats EXCEPT !.total_executions = st.total_executions]

\* ToolExecutor.reset_stats(): the counters afterwards
reset_stats(st) == NewStats

\* a ratio get_stats computes, as numerator and divisor
Ratio(n, d) == [num |-> n, den |-> d]

\* ToolExecutor.get_stats(): the counters and the derived rates, which are
\* 0.0 before the first call
get_stats(st) ==
    IF st.total_executions > 0
    THEN [stats |-> st,
          success_rate |-> Ratio(st.successful_executions, st.total_executions),
          failure_rate |-> Ratio(st.failed_executions, st.total_executions),
          blocked_rate |-> Ratio(st.blocked_executions, st.total_executions),
          avg_execution_time |-> Ratio(st.total_execution_time, st.total_executions)]
    ELSE [stats |-> st, success_rate |-> Ratio(0, 1), failure_rate |-> Ratio(0, 1),
          blocked_rate |-> Ratio(0, 1), avg_execution_time |-> Ratio(0, 1)]

\* enable_safety that sets the flag on an executor constructed without a validator
enable_safety_FlagOnly(ex, allow) ==
    [ex EXCEPT !.safety_enabled = TRUE, !.allow_warnings = allow]

\* ToolExecutor.enable_safety(allow_warnings): the executor afterwards
enable_safety(ex, allow) ==
    [ex EXCEPT !.safety_enabled = TRUE, !.allow_warnings = allow,
               !.safety_validator = TRUE]

\* ToolExecutor.disable_safety(): the validator stays
disable_safety(ex) == [ex EXCEPT !.safety_enabled = FALSE]

(***************************************************************************)
(* Statistics specification: execute, execute_batch and reset_stats calls  *)
(* of a single caller                                                      *)
(***************************************************************************)
\* The execute calls: one that succeeds, a tool that fails, a tool that
\* returns no ToolResult, a tool that raises, a validation that raises, a
\* blocked command, invalid parameters and an unregistered name.
StatCalls ==
    { Call("probe", Params1("command", StrV("echo hi")), Behaviour("ok", "ok", "returns_ok")),
      Call("probe", Params1("command", StrV("echo hi")),
           Behaviour("ok", "ok", "returns_failed")),
      Call("probe", Params1("command", StrV("echo hi")), Behaviour("ok", "ok", "returns_bare")),
      Call("probe", Params1("command", StrV("echo hi")), Behaviour("ok", "ok", "raises")),
      Call("probe", Params1("command", StrV("echo hi")), Behaviour("ok", "raises", "returns_ok")),
      Call("probe", Params1("command", StrV("rm -rf /tmp/x")),
           Behaviour("ok", "ok", "returns_ok")),
      Call("probe", Params1("command", IntV(5)), Behaviour("ok", "ok", "returns_ok")),
      Call("ghost", <<>>, Behaviour("ok", "ok", "returns_ok")) }

StatBatches ==
    LET ok == Call("probe", Params1("command", StrV("echo hi")),
                   Behaviour("ok", "ok", "returns_ok"))
        raises == Call("probe", Params1("command", StrV("echo hi")),
                       Behaviour("ok", "ok", "raises"))
        blocked == Call("probe", Params1("command", StrV("rm -rf /tmp/x")),
                        Behaviour("ok", "ok", "returns_ok"))
    IN { << ok >>, << blocked, ok >>, << ok, raises, blocked >> }

\* one call of ToolExecutor.reset_stats()
ResetStats ==
    /\ stats' = reset_stats(stats)
    /\ UNCHANGED << regVars, safety_enabled, allow_warnings, safety_validator, last, scan,
                    agentVars, loopVars, callerVars >>

NextStats ==
    \/ \E call \in StatCalls : Execute(call.tool_name, call.parameters, call.beh, Elapsed)
    \/ \E tool_calls \in StatBatches, stop_on_error \in BOOLEAN :
          ExecuteBatch(tool_calls, stop_on_error, Elapsed)
    \/ ResetStats

SpecStats == Init /\ [][NextStats]_vars

Outcomes(st) ==
    st.successful_executions + st.failed_executions + st.blocked_executions

\* C31: on an executor used by one caller, total_executions is the sum of
\* successful_executions, failed_executions and blocked_executions after
\* every execute, execute_batch and reset_stats call; a step that counts one
\* more call counts it under exactly one of the three outcomes.
C31_CountersAddUp ==
    [][ /\ stats'.total_executions = Outcomes(stats')
        /\ stats'.total_executions = stats.total_executions + 1
              => \E counter \in {"successful_executions", "failed_executions",
                                 "blocked_executions"} :
                    [c \in {"successful_executions", "failed_executions",
                            "blocked_executions"} |-> stats'[c]]
                      = [c \in {"successful_executions", "failed_executions",
                                "blocked_executions"} |->
                            IF c = counter THEN stats[c] + 1 ELSE stats[c]] ]_vars

C31_Witness ==
    /\ stats.total_executions = 2
    /\ stats.blocked_executions = 1
    /\ stats.failed_executions = 1
    /\ batch.called
    /\ Len(batch.results) = 2
    /\ last.called
    /\ last.raised = FALSE

(***************************************************************************)
(* Safety switch specification: execute between enable_safety and          *)
(* disable_safety calls, and the statistics read by get_stats              *)
(***************************************************************************)
\* The execute calls: harmless parameters, an error-severity command at top
\* level, in a list and in a list of lists, a warning-severity command,
\* invalid parameters, an unregistered name, a tool that raises.
SwitchCalls ==
    { Call("probe", Params1("command", StrV("echo hi")), Behaviour("ok", "ok", "returns_ok")),
      Call("probe", Params1("command", StrV("echo hi")),
           Behaviour("ok", "ok", "returns_failed")),
      Call("probe", Params1("command", StrV("echo hi")), Behaviour("ok", "ok", "raises")),
      Call("probe", Params1("command", StrV("echo hi")), Behaviour("ok", "raises", "returns_ok")),
      Call("probe", Params1("command", StrV("rm -rf /tmp/x")),
           Behaviour("ok", "ok", "returns_ok")),
      Call("probe", Params2("command", StrV("echo hi"),
                            "items", ListV(<< StrV("rm -rf /tmp/x") >>)),
           Behaviour("ok", "ok", "returns_ok")),
      Call("probe", Params2("command", StrV("echo hi"),
                            "items", ListV(<< ListV(<< StrV("rm -rf /tmp/x") >>) >>)),
           Behaviour("ok", "ok", "returns_ok")),
      Call("probe", Params1("command", StrV("chmod 777 foo")),
           Behaviour("ok", "ok", "returns_ok")),
      Call("probe", Params1("command", IntV(5)), Behaviour("ok", "ok", "returns_ok")),
      Call("ghost", <<>>, Behaviour("ok", "ok", "returns_ok")) }

\* one call of ToolExecutor.enable_safety(allow_warnings=allow)
EnableSafety(allow) ==
    /\ \E ex \in {enable_safety(Executor, allow)} :
          /\ safety_enabled' = ex.safety_enabled
          /\ allow_warnings' = ex.allow_warnings
          /\ safety_validator' = ex.safety_validator
    /\ UNCHANGED << regVars, stats, last, scan, agentVars, loopVars, callerVars >>

\* one call of ToolExecutor.disable_safety()
DisableSafety ==
    /\ \E ex \in {disable_safety(Executor)} :
          /\ safety_enabled' = ex.safety_enabled
          /\ allow_warnings' = ex.allow_warnings
          /\ safety_validator' = ex.safety_validator
    /\ UNCHANGED << regVars, stats, last, scan, agentVars, loopVars, callerVars >>

\* one call of ToolExecutor.get_stats(); the dictionary returned is kept
GetStats ==
    /\ scan' = [op |-> "get_stats", arg |-> stats, allow_warnings |-> allow_warnings,
                ret |-> get_stats(stats)]
    /\ UNCHANGED << regVars, execVars, agentVars, loopVars, callerVars >>

NextSwitch ==
    \/ \E call \in SwitchCalls : Execute(call.tool_name, call.parameters, call.beh, Elapsed)
    \/ \E allow \in BOOLEAN : EnableSafety(allow)
    \/ DisableSafety
    \/ GetStats

SpecSwitch == Init /\ [][NextSwitch]_vars

(***************************************************************************)
(* Properties of the safety switch specification                           *)
(***************************************************************************)
\* C37: screening follows the setting the executor has when the call is
\* made.  While safety is disabled no call is blocked: blocked_executions
\* stays and a call that resolves and validates reaches the tool's execute,
\* error-severity strings in its parameters or not.  While safety is enabled,
\* after enable_safety on an executor constructed without it too, a call that
\* resolves and validates and has an error-severity string in its parameters
\* is blocked.
C37_ScreeningFollowsSetting ==
    [][CallStep =>
          /\ ~safety_enabled =>
                /\ stats'.blocked_executions = stats.blocked_executions
                /\ ReachesScreen => last'.invoked = 1
          /\ (safety_enabled /\ ReachesScreen /\ ParamsMatch(last'.parameters, "error"))
                => BlockedOutcome]_vars

\* the tool's execute of this step's call ran and returned
ReturnedNormally == last'.invoked = 1 /\ ToolExecute(last'.beh.exec).exc = "None"

\* C38: an execute call adds its elapsed time to total_execution_time when
\* the tool's execute returned, and leaves total_execution_time as it was
\* when the call ended at resolution, validation, the safety screen or a
\* fault; total_executions counts it either way, and get_stats divides
\* total_execution_time by total_executions for the average.
C38_TimeOfReturnedCalls ==
    [][ /\ CallStep =>
              stats'.total_execution_time
                = stats.total_execution_time + (IF ReturnedNormally THEN last'.elapsed ELSE 0)
        /\ (scan'.op = "get_stats" /\ scan' # scan /\ stats.total_executions > 0) =>
              /\ scan'.ret.avg_execution_time.num = stats.total_execution_time
              /\ scan'.ret.avg_execution_time.den
                    = stats.successful_executions + stats.failed_executions
                        + stats.blocked_executions ]_vars

\* two calls made, one of them blocked, and the average read: 1 over 2
C38_Witness ==
    /\ scan.op = "get_stats"
    /\ scan.ret.avg_execution_time = Ratio(1, 2)
    /\ scan.ret.stats.blocked_executions = 1
    /\ stats.total_executions = 2
    /\ last.called

(***************************************************************************)
(* Seeding specification: chat_with_tools on agents with short and long    *)
(* conversation histories                                                  *)
(***************************************************************************)
MaxTurns == 11

\* turn k of the earlier conversation; as loaded from memory the last turn
\* may still lack its assistant message (agent.py line 126)
Turn(k) ==
    << Entry("user", StrV("question " \o ToString(k))),
       Entry("assistant", StrV("answer " \o ToString(k))) >>
OpenTurn(k) == << Entry("user", StrV("question " \o ToString(k))) >>

Histories ==
    {[k \in 1..n |-> Turn(k)] : n \in 0..MaxTurns}
        \cup {[k \in 1..n |-> IF k = n THEN OpenTurn(k) ELSE Turn(k)] : n \in 1..MaxTurns}

SeedResponses ==
    { Response(StrV("final answer"), <<>>),
      Response(StrV("working"), << Req("call_1", "echo") >>) }

\* An agent with tools and any of the histories.
InitSeed ==
    /\ InitRegistry
    /\ safety_enabled = TRUE
    /\ allow_warnings = TRUE
    /\ safety_validator = TRUE
    /\ stats = NewStats
    /\ last = NoCall
    /\ scan = NoScan
    /\ enable_tools = TRUE
    /\ available_tools = << "probe" >>
    /\ tool_executor = TRUE
    /\ history \in Histories
    /\ tool_history = <<>>
    /\ pc = "idle"
    /\ frame = NoFrame
    /\ llm_calls = <<>>
    /\ InitNoCallers

NextSeed ==
    \/ \E message \in {"run it", "go on"}, n \in 1..MaxIterations : StartChat(message, n)
    \/ \E resp \in SeedResponses : ChatCompletion(resp)
    \/ ExecuteToolCall(Behaviour("ok", "ok", "returns_ok"))

SpecSeed == InitSeed /\ [][NextSeed]_vars

(***************************************************************************)
(* Properties of the seeding specification                                 *)
(***************************************************************************)
\* the step is the entry of chat_with_tools into the loop
Seeding == pc = "idle" /\ pc' # "idle"

\* C36 as stated: the running message list starts as the messages of every
\* prior history turn, in order, the user message of a turn before its
\* assistant message, with the new user message last.
C36_Original ==
    [][Seeding =>
          frame'.messages
            = HistoryMessages(history) \o << UserMsg(StrV(frame'.message)) >>]_vars

\* C36 amended: the running message list starts as the messages of the last
\* max_history (10) turns of the history, or of all turns when there are no
\* more than that: for each of them, in order, its user message, directly
\* followed by its assistant message when the entry has one; then the new
\* user message, which is the last element.  Older turns are not in the list.
C36_SeededFromRecent ==
    [][Seeding =>
          LET k == IF Len(history) > max_history THEN max_history ELSE Len(history)
              recent(i) == history[Len(history) - k + i]
              answered == {i \in 1..k : HasKey(recent(i), "assistant")}
              at(i) == i + Cardinality({j \in answered : j < i})
              msgs == frame'.messages
          IN /\ Len(msgs) = k + Cardinality(answered) + 1
             /\ msgs[Len(msgs)] = UserMsg(StrV(frame'.message))
             /\ \A i \in 1..k :
                   /\ msgs[at(i)] = UserMsg(DictGet(recent(i), "user"))
                   /\ i \in answered =>
                         msgs[at(i) + 1] = AssistantMsg(DictGet(recent(i), "assistant"))]_vars

\* a call on a history of eleven turns: the list starts at the second turn
C36_Witness ==
    /\ pc = "requesting"
    /\ Len(history) = 11
    /\ Len(frame.messages) = 21
    /\ frame.messages[1] = UserMsg(StrV("question 2"))
    /\ frame.messages[21] = UserMsg(StrV("run it"))

(***************************************************************************)
(* Catalogue specification: register, clear, create and list_tools calls   *)
(***************************************************************************)
\* clear that empties the map of tool classes only
clear_ToolsOnly(reg) == [tools |-> <<>>, metadata |-> reg.metadata]

\* ToolRegistry.clear(): the registry afterwards
clear(reg) == [tools |-> <<>>, metadata |-> <<>>]

\* one call of ToolRegistry.clear()
Clear ==
    /\ \E reg \in {clear(Registry)} :
          /\ _tools' = reg.tools
          /\ _metadata' = reg.metadata
    /\ scan' = [op |-> "clear", arg |-> NoneV, allow_warnings |-> TRUE, ret |-> NoneV]
    /\ UNCHANGED << instances, execVars, agentVars, loopVars, callerVars >>

\* one call of ToolRegistry.list_tools(enabled_only)
ListTools(enabled_only) ==
    /\ scan' = [op |-> "list_tools", arg |-> enabled_only, allow_warnings |-> TRUE,
                ret |-> list_tools(Registry, enabled_only)]
    /\ UNCHANGED << regVars, execVars, agentVars, loopVars, callerVars >>

NextCatalog ==
    \/ \E r \in Registrations : Register(r)
    \/ Clear
    \/ \E tool_name \in RegistryNames, ctor \in {"ok", "boom"} : Create(tool_name, ctor)
    \/ \E enabled_only \in BOOLEAN : ListTools(enabled_only)

SpecCatalog == InitRegistrySpec /\ [][NextCatalog]_vars

(***************************************************************************)
(* Properties of the catalogue specification                               *)
(***************************************************************************)
Listed(names) == {names[i] : i \in 1..Len(names)}

\* C39: after every register and clear call the map of tool classes and the
\* map of metadata have the same keys; a name that list_tools(enabled_only =
\* True) returns is returned by list_tools(enabled_only=False) too; clear
\* leaves both maps empty, and a create call on the cleared registry raises the
\* ValueError of a name that is not found, whatever the name.
C39_MapsAgree ==
    [][ /\ DictKeys(_tools') = DictKeys(_metadata')
        /\ (scan'.op = "list_tools" /\ scan'.arg) =>
              /\ Listed(scan'.ret) \subseteq Listed(list_tools(Registry, FALSE))
              /\ Listed(scan'.ret)
                   = {name \in DictKeys(_metadata) : DictGet(_metadata, name).enabled}
        /\ (scan'.op = "list_tools" /\ ~scan'.arg) => Listed(scan'.ret) = DictKeys(_tools)
        /\ scan'.op = "clear" => (_tools' = <<>> /\ _metadata' = <<>>)
        /\ (scan'.op = "create" /\ (scan.op = "clear" \/ _tools = <<>>)) =>
              /\ scan'.ret.exc = "ValueError"
              /\ StartsWith(scan'.ret.msg, "Tool '" \o scan'.arg.tool_name \o "' not found")
              /\ instances' = instances ]_vars

\* a create call that fails on the cleared registry, after an earlier one
\* that returned a tool
C39_Witness ==
    /\ scan.op = "create"
    /\ scan.arg.tool_name = "probe"
    /\ scan.ret.exc = "ValueError"
    /\ _tools = <<>>
    /\ _metadata = <<>>
    /\ Len(instances) = 1

====
